---- MODULE Spec2Model ----
(***************************************************************************)
(* Model of the document-reconstruction pipeline of ff-services-pymupdf:   *)
(* RoleDetector.classify, ResultAssembler.assemble and                     *)
(* HtmlConverter.convert.                                                  *)
(*                                                                         *)
(* Python dicts are records; a key that is absent from a dict is absent    *)
(* from the record's DOMAIN.  A Python str that the code inspects          *)
(* character by character (paragraph and cell content) is a sequence of    *)
(* one-character strings; ids, tags and the produced HTML are strings.     *)
(* Font sizes and thresholds are floats with at most two decimals and are  *)
(* held in hundredths of a point (12.0 is 1200).                           *)
(***************************************************************************)
EXTENDS Integers, Sequences, FiniteSets, TLC

VARIABLES
    paragraphs,        \* list of paragraph dicts handed to classify / assemble
    tables,            \* list of table dicts handed to assemble
    images,            \* list of image dicts handed to assemble
    total_pages,       \* the total_pages argument of assemble
    title_threshold,   \* classify argument, hundredths of a point
    heading_threshold, \* classify argument, hundredths of a point
    result,            \* the DocumentAnalysisResult dict (NoResult before it exists)
    html,              \* the fragments appended to convert's html string, in order
    pc,                \* position of the caller: which operation ran last
    request,           \* per invocation of process: its arguments (data, operation, options)
    frame,             \* per invocation of process: its local variables and position
    config,            \* the module global _config of config.py
    first_in_set       \* per list of font names with several most used names:
                       \* the one of them that iterating set(font_names) meets
                       \* first in this process (it hangs on the hash seed)

vars == <<paragraphs, tables, images, total_pages, title_threshold,
          heading_threshold, result, html, pc, request, frame, config,
          first_in_set>>

-----------------------------------------------------------------------------
(* Bounds of the model *)

\* most elements (paragraphs + tables + images) handed to one assemble call
MaxBlocks == 3

-----------------------------------------------------------------------------
(* Generic helpers *)

\* dict.get(k, default)
Get(d, k, default) == IF k \in DOMAIN d THEN d[k] ELSE default

\* "prefix-<n>" ids as built by f"para-{counter}" and friends
MkId(prefix, n) == prefix \o "-" \o ToString(n)

Max2(a, b) == IF a >= b THEN a ELSE b
Min2(a, b) == IF a <= b THEN a ELSE b

NoResult == [model_used |-> "none"]

\* _config before the first get_config()
NoConfig == [loaded |-> FALSE]

\* defaults of classify's title_threshold and heading_threshold (18.0, 14.0)
DefaultTitleThreshold == 1800
DefaultHeadingThreshold == 1400

-----------------------------------------------------------------------------
(* ResultAssembler *)

\* para.get("page_number") != table.get("page_number"); a missing key reads
\* as None, and None equals only None
PageDiffers(para, table) ==
    IF "page_number" \in DOMAIN para
    THEN IF "page_number" \in DOMAIN table
         THEN para.page_number # table.page_number
         ELSE TRUE
    ELSE "page_number" \in DOMAIN table

\* OverlapsTable with "or" for "and": an overlap in one direction is enough
OverlapsTable_EitherAxis(para, table) ==
    IF "bounding_box" \notin DOMAIN table THEN FALSE
    ELSE IF PageDiffers(para, table) THEN FALSE
    ELSE LET p_bbox == para.bounding_box
             t_bbox == table.bounding_box
             overlap_x == Max2(0, Min2(p_bbox.x_max, t_bbox.x_max)
                                  - Max2(p_bbox.x_min, t_bbox.x_min))
             overlap_y == Max2(0, Min2(p_bbox.y_max, t_bbox.y_max)
                                  - Max2(p_bbox.y_min, t_bbox.y_min))
         IN  overlap_x > 0 \/ overlap_y > 0

\* the body of the loop over tables in _overlaps_any_table for one table
OverlapsTable(para, table) ==
    IF "bounding_box" \notin DOMAIN table THEN FALSE
    ELSE IF PageDiffers(para, table) THEN FALSE
    ELSE LET p_bbox == para.bounding_box
             t_bbox == table.bounding_box
             overlap_x == Max2(0, Min2(p_bbox.x_max, t_bbox.x_max)
                                  - Max2(p_bbox.x_min, t_bbox.x_min))
             overlap_y == Max2(0, Min2(p_bbox.y_max, t_bbox.y_max)
                                  - Max2(p_bbox.y_min, t_bbox.y_min))
         IN  overlap_x > 0 /\ overlap_y > 0

OverlapsAnyTable(para, tabs) ==
    IF "bounding_box" \notin DOMAIN para THEN FALSE
    ELSE \E k \in 1..Len(tabs) : OverlapsTable(para, tabs[k])

\* FilterTableOverlaps with filtered.insert(0, para) for filtered.append(para)
FilterTableOverlaps_Prepend(paras, tabs) ==
    IF tabs = <<>> THEN paras
    ELSE LET Keep(p) == ~OverlapsAnyTable(p, tabs)
             kept == SelectSeq(paras, Keep)
         IN  [i \in 1..Len(kept) |-> kept[Len(kept) + 1 - i]]

FilterTableOverlaps(paras, tabs) ==
    IF tabs = <<>> THEN paras
    ELSE LET Keep(p) == ~OverlapsAnyTable(p, tabs)
         IN  SelectSeq(paras, Keep)

\* one content block appended for an element
ContentBlock(type, elem) ==
    [type       |-> type,
     page       |-> Get(elem, "page_number", 1),
     y_position |-> IF "bounding_box" \in DOMAIN elem
                    THEN elem.bounding_box.y_min ELSE 0,
     content_id |-> elem.id]

BlocksOf(type, elems) == [i \in 1..Len(elems) |-> ContentBlock(type, elems[i])]

\* KeyLess with the key b["y_position"] alone
KeyLess_YOnly(a, b) == a.y_position < b.y_position

\* the sort key (b["page"], b["y_position"]) compared as Python tuples
KeyLess(a, b) ==
    \/ a.page < b.page
    \/ a.page = b.page /\ a.y_position < b.y_position

\* InsertBlock of an unstable sort: an element goes in front of the earlier
\* elements with an equal key
InsertBlock_Unstable(sorted, b) ==
    LET k == Cardinality({i \in 1..Len(sorted) : KeyLess(sorted[i], b)})
    IN  SubSeq(sorted, 1, k) \o <<b>> \o SubSeq(sorted, k + 1, Len(sorted))

\* list.sort is stable: an element goes behind every earlier element whose key
\* is not greater than its own
InsertBlock(sorted, b) ==
    LET k == Cardinality({i \in 1..Len(sorted) : ~KeyLess(b, sorted[i])})
    IN  SubSeq(sorted, 1, k) \o <<b>> \o SubSeq(sorted, k + 1, Len(sorted))

RECURSIVE SortBlocks(_)
SortBlocks(s) ==
    IF s = <<>> THEN <<>>
    ELSE InsertBlock(SortBlocks(SubSeq(s, 1, Len(s) - 1)), s[Len(s)])

\* "\n".join(contents) on character sequences
RECURSIVE JoinLines(_)
JoinLines(s) ==
    IF s = <<>> THEN <<>>
    ELSE IF Len(s) = 1 THEN s[1]
    ELSE s[1] \o <<"\n">> \o JoinLines(Tail(s))

FullText(paras) == JoinLines([i \in 1..Len(paras) |-> paras[i].content])

ContentBlocks(filtered, tabs, imgs) ==
    SortBlocks(BlocksOf("paragraph", filtered)
               \o BlocksOf("table", tabs)
               \o BlocksOf("image", imgs))

\* AssembleResult looping over paragraphs instead of filtered_paragraphs when
\* it appends the paragraph blocks
AssembleResult_UnfilteredBlocks(paras, tabs, imgs, total) ==
    LET filtered_paragraphs == FilterTableOverlaps(paras, tabs)
    IN  [model_used     |-> "pymupdf",
         pages          |-> total,
         paragraphs     |-> filtered_paragraphs,
         tables         |-> tabs,
         images         |-> imgs,
         full_text      |-> FullText(filtered_paragraphs),
         content_blocks |-> ContentBlocks(paras, tabs, imgs)]

\* AssembleResult joining the paragraphs in content-block order
AssembleResult_TextInBlockOrder(paras, tabs, imgs, total) ==
    LET filtered_paragraphs == FilterTableOverlaps(paras, tabs)
        sorted == SortBlocks(BlocksOf("paragraph", filtered_paragraphs))
        ById(id) == CHOOSE p \in {filtered_paragraphs[i] :
                                     i \in 1..Len(filtered_paragraphs)} : p.id = id
    IN  [model_used     |-> "pymupdf",
         pages          |-> total,
         paragraphs     |-> filtered_paragraphs,
         tables         |-> tabs,
         images         |-> imgs,
         full_text      |-> FullText([i \in 1..Len(sorted) |-> ById(sorted[i].content_id)]),
         content_blocks |-> ContentBlocks(filtered_paragraphs, tabs, imgs)]

\* AssembleResult recomputing pages as the highest page number of an element
AssembleResult_PagesRecomputed(paras, tabs, imgs, total) ==
    LET filtered_paragraphs == FilterTableOverlaps(paras, tabs)
        all == paras \o tabs \o imgs
        nums == {Get(all[i], "page_number", 1) : i \in 1..Len(all)}
    IN  [model_used     |-> "pymupdf",
         pages          |-> IF nums = {} THEN 0
                            ELSE CHOOSE n \in nums : \A m \in nums : m <= n,
         paragraphs     |-> filtered_paragraphs,
         tables         |-> tabs,
         images         |-> imgs,
         full_text      |-> FullText(filtered_paragraphs),
         content_blocks |-> ContentBlocks(filtered_paragraphs, tabs, imgs)]

AssembleResult(paras, tabs, imgs, total) ==
    LET filtered_paragraphs == FilterTableOverlaps(paras, tabs)
    IN  [model_used     |-> "pymupdf",
         pages          |-> total,
         paragraphs     |-> filtered_paragraphs,
         tables         |-> tabs,
         images         |-> imgs,
         full_text      |-> FullText(filtered_paragraphs),
         content_blocks |-> ContentBlocks(filtered_paragraphs, tabs, imgs)]

-----------------------------------------------------------------------------
(* Inputs of assemble *)

Pages == {1, 2}

\* bounding boxes: A and B overlap partly, A and C share an edge, A and D a
\* corner, B overlaps C and D, C and D share an edge
Boxes ==
    {[x_min |-> 0, y_min |-> 0, x_max |-> 2, y_max |-> 2],
     [x_min |-> 1, y_min |-> 1, x_max |-> 3, y_max |-> 3],
     [x_min |-> 2, y_min |-> 0, x_max |-> 4, y_max |-> 2],
     [x_min |-> 2, y_min |-> 2, x_max |-> 4, y_max |-> 4]}

PageTotals == {0, 2}

\* the dicts an element with this id and these further fields can be: with or
\* without page_number, with or without bounding_box
Placed(base) ==
    LET F(k, v) == [x \in {k} |-> v]
    IN  {base}
        \cup {base @@ F("page_number", pg) : pg \in Pages}
        \cup {base @@ F("bounding_box", b) : b \in Boxes}
        \cup {base @@ F("page_number", pg) @@ F("bounding_box", b) :
                  pg \in Pages, b \in Boxes}

ParagraphDicts(i) ==
    Placed([id |-> MkId("para", i - 1), content |-> <<ToString(i)>>,
            role |-> "None",
            font |-> [name |-> "Arial", size |-> 1200, bold |-> FALSE]])

TableDicts(i) ==
    Placed([id |-> MkId("table", i - 1), rows |-> 0, columns |-> 0,
            cells |-> <<>>])

ImageDicts(i) ==
    Placed([id |-> MkId("img", i - 1), mime_type |-> "image/png",
            data |-> "QQ=="])

\* the dicts the i-th element of a list of this kind can be
ElementDicts(kind, i) ==
    CASE kind = "paragraph" -> ParagraphDicts(i)
      [] kind = "table" -> TableDicts(i)
      [] kind = "image" -> ImageDicts(i)

\* the lists of n dicts of a kind
RECURSIVE Lists(_, _)
Lists(kind, n) ==
    IF n = 0 THEN {<<>>}
    ELSE {Append(s, e) : s \in Lists(kind, n - 1), e \in ElementDicts(kind, n)}

InitAssemble ==
    /\ \E np \in 0..MaxBlocks : \E nt \in 0..(MaxBlocks - np) :
         \E ni \in 0..(MaxBlocks - np - nt) :
           /\ paragraphs \in Lists("paragraph", np)
           /\ tables \in Lists("table", nt)
           /\ images \in Lists("image", ni)
    /\ total_pages = 0
    /\ title_threshold = DefaultTitleThreshold
    /\ heading_threshold = DefaultHeadingThreshold
    /\ result = NoResult
    /\ html = <<>>
    /\ pc = "start"
    /\ request = <<>>
    /\ frame = <<>>
    /\ config = NoConfig
    /\ first_in_set = <<>>

\* result = assembler.assemble(paragraphs, tables, images, total_pages)
Assemble ==
    /\ pc = "start"
    /\ \E total \in PageTotals :
         /\ total_pages' = total
         /\ result' = AssembleResult(paragraphs, tables, images, total)
    /\ pc' = "assembled"
    /\ UNCHANGED <<paragraphs, tables, images, title_threshold,
                   heading_threshold, html, request, frame, config,
                   first_in_set>>

NextAssemble == Assemble

SpecAssemble == InitAssemble /\ [][NextAssemble]_vars

-----------------------------------------------------------------------------
(* Python floats *)
(* A font size of the model is a number of hundredths n and stands for the   *)
(* float of the literal n/100, the double nearest to it.  Where the code     *)
(* computes with such floats and the outcome hangs on the last bit (a        *)
(* rounding between two tenths, a comparison with an equal product), the     *)
(* model computes with the doubles themselves: a non-negative double is      *)
(* [m |-> bits, e |-> exponent], the bits of an integer from the highest to  *)
(* the lowest, standing for that integer times 2^e.                          *)

Zeros(n) == [i \in 1..n |-> 0]

RECURSIVE Sum(_)
Sum(nums) == IF nums = <<>> THEN 0 ELSE Head(nums) + Sum(Tail(nums))

RECURSIVE BitsOf(_)
BitsOf(n) == IF n = 0 THEN <<>> ELSE Append(BitsOf(n \div 2), n % 2)

\* the integer of a short sequence of bits
NatOf(bits) == Sum([i \in 1..Len(bits) |-> bits[i] * 2 ^ (Len(bits) - i)])

\* the bits without leading zeros
Trim(bits) ==
    IF \A i \in 1..Len(bits) : bits[i] = 0 THEN <<>>
    ELSE LET first == CHOOSE i \in 1..Len(bits) :
                          bits[i] = 1 /\ \A j \in 1..(i - 1) : bits[j] = 0
         IN  SubSeq(bits, first, Len(bits))

PadLeft(bits, n) == Zeros(n - Len(bits)) \o bits

\* Long integers are added, multiplied and divided in limbs: the numbers
\* below LimbBase, which LimbBits bits hold, from the lowest limb to the
\* highest.
LimbBase == 2 ^ 11
LimbBits == Len(BitsOf(LimbBase)) - 1

Limbs(bits) ==
    LET n == Len(bits)
    IN  [j \in 1..((n + LimbBits - 1) \div LimbBits) |->
            NatOf(SubSeq(bits, Max2(1, n - LimbBits * j + 1),
                         n - LimbBits * (j - 1)))]

BitsOfLimbs(limbs) ==
    LET n == LimbBits * Len(limbs)
    IN  Trim([i \in 1..n |->
                 (limbs[(n - i) \div LimbBits + 1] \div 2 ^ ((n - i) % LimbBits)) % 2])

Limb(limbs, j) == IF j \in 1..Len(limbs) THEN limbs[j] ELSE 0

\* the sum of two integers: the limbs below j are summed in acc, with this
\* carry
RECURSIVE AddFrom(_, _, _, _, _)
AddFrom(a, b, j, carry, acc) ==
    IF j > Max2(Len(a), Len(b)) THEN Append(acc, carry)
    ELSE AddFrom(a, b, j + 1,
                 (Limb(a, j) + Limb(b, j) + carry) \div LimbBase,
                 Append(acc, (Limb(a, j) + Limb(b, j) + carry) % LimbBase))

AddBits(a, b) == BitsOfLimbs(AddFrom(Limbs(a), Limbs(b), 1, 0, <<>>))

\* the sum of the products of the limbs of a and b whose places add up to
\* that of limb p of the product
Column(a, b, p) ==
    Sum([i \in 1..Len(a) |-> Limb(a, i) * Limb(b, p + 1 - i)])

\* the product of two integers: the columns below p are summed in acc, with
\* this carry
RECURSIVE MulFrom(_, _, _, _, _)
MulFrom(a, b, p, carry, acc) ==
    IF p > Len(a) + Len(b) THEN acc
    ELSE MulFrom(a, b, p + 1,
                 (Column(a, b, p) + carry) \div LimbBase,
                 Append(acc, (Column(a, b, p) + carry) % LimbBase))

MulBits(a, b) == BitsOfLimbs(MulFrom(Limbs(a), Limbs(b), 1, 0, <<>>))

\* long division of an integer by a small number k, from the highest limb
\* down to limb j: the quotient so far in acc, the remainder in r
RECURSIVE DivFrom(_, _, _, _, _)
DivFrom(a, k, j, r, acc) ==
    IF j = 0 THEN [q |-> BitsOfLimbs(acc), r |-> r]
    ELSE DivFrom(a, k, j - 1, (r * LimbBase + a[j]) % k,
                 <<(r * LimbBase + a[j]) \div k>> \o acc)

LongDiv(bits, k) == DivFrom(Limbs(bits), k, Len(Limbs(bits)), 0, <<>>)

\* a < b for integers
LessBits(a, b) ==
    LET n == Max2(Len(a), Len(b))
        x == PadLeft(a, n)
        y == PadLeft(b, n)
    IN  \E i \in 1..n : x[i] < y[i] /\ \A j \in 1..(i - 1) : x[j] = y[j]

\* the number of bits of a double's significand
Precision == 53

\* the double nearest to bits * 2^e, plus a little if sticky; of two equally
\* near the one with the even significand (IEEE 754 round-half-even)
RoundBits(bits, sticky, e) ==
    IF Len(bits) <= Precision THEN [m |-> bits, e |-> e]
    ELSE LET keep == SubSeq(bits, 1, Precision)
             guard == bits[Precision + 1]
             rest == sticky \/ \E i \in (Precision + 2)..Len(bits) : bits[i] = 1
             up == guard = 1 /\ (rest \/ keep[Precision] = 1)
         IN  [m |-> IF up THEN AddBits(keep, <<1>>) ELSE keep,
              e |-> e + Len(bits) - Precision]

\* float(n) / float(d) for integers n >= 0 and d > 0, also the float of the
\* decimal literal n/d
FloatOf(n, d) ==
    LET shift == Precision + 2 + Len(BitsOf(d))
        res == LongDiv(BitsOf(n) \o Zeros(shift), d)
    IN  IF n = 0 THEN [m |-> <<>>, e |-> 0]
        ELSE RoundBits(res.q, res.r # 0, 0 - shift)

\* the significands of two doubles over their common exponent
Aligned(x, y) ==
    LET e == Min2(x.e, y.e)
    IN  [x |-> IF x.m = <<>> THEN <<>> ELSE x.m \o Zeros(x.e - e),
         y |-> IF y.m = <<>> THEN <<>> ELSE y.m \o Zeros(y.e - e),
         e |-> e]

\* x + y
FloatAdd(x, y) ==
    LET a == Aligned(x, y) IN RoundBits(AddBits(a.x, a.y), FALSE, a.e)

\* x * y
FloatMul(x, y) == RoundBits(MulBits(x.m, y.m), FALSE, x.e + y.e)

\* x / k for an integer k > 0
FloatDivInt(x, k) ==
    LET shift == Precision + 2 + Len(BitsOf(k))
        res == LongDiv(x.m \o Zeros(shift), k)
    IN  IF x.m = <<>> THEN x ELSE RoundBits(res.q, res.r # 0, x.e - shift)

\* x < y
FloatLess(x, y) == LET a == Aligned(x, y) IN LessBits(a.x, a.y)

\* round(x, 1), in hundredths: the tenth nearest to the exact value of the
\* double, of two equally near the even one
RoundTenth(x) ==
    LET tenfold == MulBits(x.m, BitsOf(10))
        places == IF x.e < 0 THEN 0 - x.e ELSE 0
        bits == PadLeft(tenfold \o Zeros(IF x.e > 0 THEN x.e ELSE 0), places + 1)
        whole == NatOf(Trim(SubSeq(bits, 1, Len(bits) - places)))
        frac == SubSeq(bits, Len(bits) - places + 1, Len(bits))
        half == frac # <<>> /\ frac[1] = 1
        rest == \E i \in 2..Len(frac) : frac[i] = 1
    IN  10 * (IF half /\ (rest \/ whole % 2 = 1) THEN whole + 1 ELSE whole)

-----------------------------------------------------------------------------
(* RoleDetector *)

\* default of font.get("size", 12.0), and the body size when no text is found
DefaultFontSize == 1200

\* cap of a paragraph's weight in _detect_body_font_size
WeightCap == 200

FontOf(para) == Get(para, "font", [none |-> TRUE])
FontSize(para) == Get(FontOf(para), "size", DefaultFontSize)
FontBold(para) == Get(FontOf(para), "bold", FALSE)

\* the sizes up to 30 points that end in 5 hundredths, each with its
\* rounding, worked out once
RoundedHalves ==
    [size \in {10 * k + 5 : k \in 0..300} |-> RoundTenth(FloatOf(size, 100))]

\* round(size, 1) on hundredths of a size >= 0: the nearest tenth.  A size
\* that ends in 5 hundredths lies between two tenths, and the double of the
\* size, which lies a little above or below it, decides.
Round1(size) ==
    LET low == (size \div 10) * 10
        rest == size - low
    IN  IF rest < 5 THEN low
        ELSE IF rest > 5 THEN low + 10
        ELSE IF size \in DOMAIN RoundedHalves THEN RoundedHalves[size]
        ELSE RoundTenth(FloatOf(size, 100))

Repeat(x, n) == [i \in 1..n |-> x]

\* WeightedSizes with len(content) as the weight, without the cap
RECURSIVE WeightedSizes_Uncapped(_)
WeightedSizes_Uncapped(paras) ==
    IF paras = <<>> THEN <<>>
    ELSE LET para == paras[Len(paras)]
             weight == Len(Get(para, "content", <<>>))
         IN  WeightedSizes_Uncapped(SubSeq(paras, 1, Len(paras) - 1))
             \o Repeat(Round1(FontSize(para)), weight)

\* the list "sizes": each paragraph extends it by weight copies of its size
RECURSIVE WeightedSizes(_)
WeightedSizes(paras) ==
    IF paras = <<>> THEN <<>>
    ELSE LET para == paras[Len(paras)]
             weight == Min2(Len(Get(para, "content", <<>>)), WeightCap)
         IN  WeightedSizes(SubSeq(paras, 1, Len(paras) - 1))
             \o Repeat(Round1(FontSize(para)), weight)

\* MostCommon taking, among equal counts, the key that entered the counter last
MostCommon_LastOnTie(sizes) ==
    LET keys == {sizes[i] : i \in 1..Len(sizes)}
        Count(k) == Cardinality({i \in 1..Len(sizes) : sizes[i] = k})
        First(k) == CHOOSE i \in 1..Len(sizes) :
                        sizes[i] = k /\ \A j \in 1..(i - 1) : sizes[j] # k
    IN  CHOOSE k \in keys :
            \A o \in keys \ {k} :
                \/ Count(k) > Count(o)
                \/ Count(k) = Count(o) /\ First(k) > First(o)

\* Counter(sizes).most_common(1)[0][0]: the highest count, and among equal
\* counts the key that entered the counter first
MostCommon(sizes) ==
    LET keys == {sizes[i] : i \in 1..Len(sizes)}
        Count(k) == Cardinality({i \in 1..Len(sizes) : sizes[i] = k})
        First(k) == CHOOSE i \in 1..Len(sizes) :
                        sizes[i] = k /\ \A j \in 1..(i - 1) : sizes[j] # k
    IN  CHOOSE k \in keys :
            \A o \in keys \ {k} :
                \/ Count(k) > Count(o)
                \/ Count(k) = Count(o) /\ First(k) < First(o)

DetectBodyFontSize(paras) ==
    LET sizes == WeightedSizes(paras)
    IN  IF sizes = <<>> THEN DefaultFontSize ELSE MostCommon(sizes)

\* for a font size of exactly n/d times the body size: how the float of the
\* font size compares with the float product body_size * (n/d): -1 below it,
\* 0 equal to it, 1 above it
CompareProduct(body_size, n, d) ==
    LET font == FloatOf((n * body_size) \div d, 100)
        product == FloatMul(FloatOf(body_size, 100), FloatOf(n, d))
    IN  IF FloatLess(font, product) THEN 0 - 1
        ELSE IF FloatLess(product, font) THEN 1
        ELSE 0

\* the body sizes up to 30 points in tenths, each with this comparison for
\* the factors 1.5 and 1.1, worked out once
ComparedProducts ==
    [body_size \in {10 * k : k \in 0..300} |->
        [title   |-> CompareProduct(body_size, 3, 2),
         heading |-> CompareProduct(body_size, 11, 10)]]

\* the same, looked up where it is worked out
ComparedProduct(body_size, n, d) ==
    IF body_size \in DOMAIN ComparedProducts /\ <<n, d>> = <<3, 2>>
    THEN ComparedProducts[body_size].title
    ELSE IF body_size \in DOMAIN ComparedProducts /\ <<n, d>> = <<11, 10>>
    THEN ComparedProducts[body_size].heading
    ELSE CompareProduct(body_size, n, d)

\* font_size >= body_size * factor for the factor n/d (1.5 is 3/2): the
\* product is a float product, which decides when the exact product is
\* font_size; otherwise the exact numbers do
AtLeastTimes(font_size, body_size, n, d) ==
    IF d * font_size # n * body_size THEN d * font_size > n * body_size
    ELSE ComparedProduct(body_size, n, d) >= 0

\* font_size > body_size * factor for the factor n/d (1.1 is 11/10)
MoreThanTimes(font_size, body_size, n, d) ==
    IF d * font_size # n * body_size THEN d * font_size > n * body_size
    ELSE ComparedProduct(body_size, n, d) > 0

\* _classify_single with the heading rules tried before the relative title rule
ClassifySingle_HeadingFirst(font_size, is_bold, body_size, title_thr, heading_thr) ==
    IF font_size >= title_thr THEN "title"
    ELSE IF font_size >= heading_thr THEN "sectionHeading"
    ELSE IF AtLeastTimes(font_size, body_size, 3, 2) /\ is_bold THEN "title"
    ELSE IF is_bold /\ MoreThanTimes(font_size, body_size, 11, 10)
    THEN "sectionHeading"
    ELSE "None"

ClassifySingle(font_size, is_bold, body_size, title_thr, heading_thr) ==
    IF font_size >= title_thr THEN "title"
    ELSE IF AtLeastTimes(font_size, body_size, 3, 2) /\ is_bold THEN "title"
    ELSE IF font_size >= heading_thr THEN "sectionHeading"
    ELSE IF is_bold /\ MoreThanTimes(font_size, body_size, 11, 10)
    THEN "sectionHeading"
    ELSE "None"

\* para["role"] = role: the key is set whether the dict had it or not
SetRole(para, role) ==
    [k \in DOMAIN para \cup {"role"} |-> IF k = "role" THEN role ELSE para[k]]

\* classify that leaves a paragraph alone once it has a role
ClassifyParagraphs_KeepRole(paras, title_thr, heading_thr) ==
    IF paras = <<>> THEN paras
    ELSE LET unset == LET NoRole(p) == Get(p, "role", "None") = "None"
                      IN  SelectSeq(paras, NoRole)
             body_size == DetectBodyFontSize(unset)
         IN  [i \in 1..Len(paras) |->
                 IF Get(paras[i], "role", "None") # "None" THEN paras[i]
                 ELSE SetRole(paras[i],
                         ClassifySingle(FontSize(paras[i]), FontBold(paras[i]),
                                        body_size, title_thr, heading_thr))]

\* the paragraphs after classify(paragraphs, title_threshold, heading_threshold)
ClassifyParagraphs(paras, title_thr, heading_thr) ==
    IF paras = <<>> THEN paras
    ELSE LET body_size == DetectBodyFontSize(paras)
         IN  [i \in 1..Len(paras) |->
                 SetRole(paras[i],
                     ClassifySingle(FontSize(paras[i]), FontBold(paras[i]),
                                    body_size, title_thr, heading_thr))]

-----------------------------------------------------------------------------
(* Inputs of classify *)

\* most paragraphs handed to one classify call
MaxParas == 3

\* 8.8, 11.04, 13.2, 14.0 and 18.0 points; a paragraph without a font has
\* the default size 12.0.  As floats 8.8 * 1.5 lies above 13.2.
FontSizes == {880, 1104, 1320, 1400, 1800}

Texts == {<<>>, <<"a", "b">>}

\* (title_threshold, heading_threshold): the defaults, and a heading
\* threshold above the title threshold
Thresholds == {<<DefaultTitleThreshold, DefaultHeadingThreshold>>,
               <<DefaultHeadingThreshold, DefaultTitleThreshold>>}

\* the dicts the i-th paragraph can be: without a font, or with one
FontedDicts(i) ==
    LET Base(text) == [id |-> MkId("para", i - 1), content |-> text,
                       role |-> "None", page_number |-> 1]
    IN  {Base(text) : text \in Texts}
        \cup {Base(text) @@ [font |-> [name |-> "Arial", size |-> sz, bold |-> b]] :
                 text \in Texts, sz \in FontSizes, b \in BOOLEAN}

\* the lists of n such paragraph dicts
RECURSIVE FontedLists(_)
FontedLists(n) ==
    IF n = 0 THEN {<<>>}
    ELSE {Append(s, e) : s \in FontedLists(n - 1), e \in FontedDicts(n)}

InitClassify ==
    /\ \E np \in 0..MaxParas : paragraphs \in FontedLists(np)
    /\ \E th \in Thresholds : title_threshold = th[1] /\ heading_threshold = th[2]
    /\ tables = <<>>
    /\ images = <<>>
    /\ total_pages = 0
    /\ result = NoResult
    /\ html = <<>>
    /\ pc = "start"
    /\ request = <<>>
    /\ frame = <<>>
    /\ config = NoConfig
    /\ first_in_set = <<>>

\* role_detector.classify(paragraphs, title_threshold, heading_threshold),
\* on a fresh list and once more on the classified list
Classify ==
    /\ pc \in {"start", "classified"}
    /\ paragraphs' = ClassifyParagraphs(paragraphs, title_threshold,
                                        heading_threshold)
    /\ pc' = IF pc = "start" THEN "classified" ELSE "reclassified"
    /\ UNCHANGED <<tables, images, total_pages, title_threshold,
                   heading_threshold, result, html, request, frame, config,
                   first_in_set>>

NextClassify == Classify

SpecClassify == InitClassify /\ [][NextClassify]_vars

-----------------------------------------------------------------------------
(* Inputs of _detect_body_font_size: paragraphs whose contents are short,    *)
(* at the cap of the weight, and longer.                                     *)

\* most paragraphs handed to one _detect_body_font_size call
MaxBodyParas == 3

\* len(content): empty, below the cap of 200, at it and above it
ContentLengths == {0, 110, 200, 300}

\* 11.05 points (11.1 when rounded: the float lies above 11.05) and 13.0
\* points; a paragraph without a font has the default size 12.0
BodyFontSizes == {1105, 1300}

\* the dicts the i-th paragraph can be: without a font, or with one
WeightedDicts(i) ==
    LET Base(n) == [id |-> MkId("para", i - 1), content |-> Repeat("a", n),
                    role |-> "None", page_number |-> 1]
    IN  {Base(n) : n \in ContentLengths}
        \cup {Base(n) @@ [font |-> [name |-> "Arial", size |-> sz, bold |-> TRUE]] :
                 n \in ContentLengths, sz \in BodyFontSizes}

RECURSIVE WeightedLists(_)
WeightedLists(n) ==
    IF n = 0 THEN {<<>>}
    ELSE {Append(s, e) : s \in WeightedLists(n - 1), e \in WeightedDicts(n)}

InitBody ==
    /\ \E np \in 0..MaxBodyParas : paragraphs \in WeightedLists(np)
    /\ title_threshold = DefaultTitleThreshold
    /\ heading_threshold = DefaultHeadingThreshold
    /\ tables = <<>>
    /\ images = <<>>
    /\ total_pages = 0
    /\ result = NoResult
    /\ html = <<>>
    /\ pc = "start"
    /\ request = <<>>
    /\ frame = <<>>
    /\ config = NoConfig
    /\ first_in_set = <<>>

\* body_size = role_detector._detect_body_font_size(paragraphs); the frame
\* of the call holds what it returned
DetectBody ==
    /\ pc = "start"
    /\ frame' = <<[returned |-> DetectBodyFontSize(paragraphs)]>>
    /\ pc' = "detected"
    /\ UNCHANGED <<paragraphs, tables, images, total_pages, title_threshold,
                   heading_threshold, result, html, request, config,
                   first_in_set>>

\* role_detector.classify(paragraphs, title_threshold, heading_threshold)
\* on the same list
ClassifyDetected ==
    /\ pc = "detected"
    /\ paragraphs' = ClassifyParagraphs(paragraphs, title_threshold,
                                        heading_threshold)
    /\ pc' = "classified"
    /\ UNCHANGED <<tables, images, total_pages, title_threshold,
                   heading_threshold, result, html, request, frame, config,
                   first_in_set>>

NextBody == DetectBody \/ ClassifyDetected

SpecBody == InitBody /\ [][NextBody]_vars

-----------------------------------------------------------------------------
(* HtmlConverter *)
(* The html string is the sequence of the pieces concatenated into it: tags  *)
(* and attributes as strings, escaped content character by character.        *)

HtmlOpen == "<html><head><meta charset=\"utf-8\"></head><body>"
HtmlClose == "</body></html>"

Chars(str) ==
    CASE str = "&amp;" -> <<"&", "a", "m", "p", ";">>
      [] str = "&lt;" -> <<"&", "l", "t", ";">>
      [] str = "&gt;" -> <<"&", "g", "t", ";">>
      [] str = "&quot;" -> <<"&", "q", "u", "o", "t", ";">>
      [] str = "&#039;" -> <<"&", "#", "0", "3", "9", ";">>

\* text.replace(old, new) for a one-character old
RECURSIVE Replace(_, _, _)
Replace(text, old, new) ==
    IF text = <<>> THEN <<>>
    ELSE (IF Head(text) = old THEN new ELSE <<Head(text)>>)
         \o Replace(Tail(text), old, new)

\* _escape_html with the ampersand replaced last
EscapeHtml_AmpLast(text) ==
    Replace(Replace(Replace(Replace(Replace(text,
        "<", Chars("&lt;")),
        ">", Chars("&gt;")),
        "\"", Chars("&quot;")),
        "'", Chars("&#039;")),
        "&", Chars("&amp;"))

EscapeHtml(text) ==
    Replace(Replace(Replace(Replace(Replace(text,
        "&", Chars("&amp;")),
        "<", Chars("&lt;")),
        ">", Chars("&gt;")),
        "\"", Chars("&quot;")),
        "'", Chars("&#039;"))

GetRoleTag(role) ==
    IF role = "title" THEN "h1"
    ELSE IF role = "sectionHeading" THEN "h2"
    ELSE "p"

\* an empty slot ([None] * columns) of the row grid
NoCell == [kind |-> "no cell"]

\* the grid "rows" after the loop over the cells
RECURSIVE GroupCells(_, _)
GroupCells(cells, columns) ==
    IF cells = <<>> THEN <<>>
    ELSE LET cell == cells[Len(cells)]
             before == GroupCells(SubSeq(cells, 1, Len(cells) - 1), columns)
             \* while len(rows) <= cell["row_index"]: rows.append(...)
             grown == [r \in 1..Max2(Len(before), cell.row_index + 1) |->
                          IF r <= Len(before) THEN before[r]
                          ELSE [c \in 1..columns |-> NoCell]]
         IN  IF cell.column_index < Len(grown[cell.row_index + 1])
             THEN [grown EXCEPT ![cell.row_index + 1][cell.column_index + 1] = cell]
             ELSE grown

CellToHtml(cell) ==
    IF cell = NoCell THEN <<"<td></td>">>
    ELSE LET tag == IF Get(cell, "kind", "None") = "columnHeader" THEN "th" ELSE "td"
             colspan == IF Get(cell, "column_span", 1) > 1
                        THEN " colspan=\"" \o ToString(cell.column_span) \o "\""
                        ELSE ""
             rowspan == IF Get(cell, "row_span", 1) > 1
                        THEN " rowspan=\"" \o ToString(cell.row_span) \o "\""
                        ELSE ""
         IN  <<"<" \o tag \o colspan \o rowspan \o ">">>
             \o EscapeHtml(cell.content)
             \o <<"</" \o tag \o ">">>

RECURSIVE ConcatAll(_)
ConcatAll(ss) == IF ss = <<>> THEN <<>> ELSE Head(ss) \o ConcatAll(Tail(ss))

RowToHtml(row) ==
    <<"<tr>">> \o ConcatAll([c \in 1..Len(row) |-> CellToHtml(row[c])]) \o <<"</tr>">>

TableToHtml(table) ==
    LET rows == GroupCells(Get(table, "cells", <<>>), Get(table, "columns", 0))
    IN  <<"<table border=\"1\" id=\"" \o table.id \o "\"><tbody>">>
        \o ConcatAll([r \in 1..Len(rows) |-> RowToHtml(rows[r])])
        \o <<"</tbody></table>">>

\* {e["id"]: e for e in elems}.get(id): the last element with the id
NotFound == [id |-> "not found"]

ById(elems, id) ==
    LET hits == {i \in 1..Len(elems) : elems[i].id = id}
    IN  IF hits = {} THEN NotFound
        ELSE elems[CHOOSE i \in hits : \A j \in hits : j <= i]

\* BlockToHtml without the "if para" / "if table" / "if img and data" guards:
\* a block that resolves to nothing still emits its (empty) element
BlockToHtml_NoGuard(res, block) ==
    CASE block.type = "paragraph" ->
           LET para == ById(res.paragraphs, block.content_id)
           IN  IF para = NotFound THEN <<"<p>", "</p>">>
               ELSE LET tag == GetRoleTag(Get(para, "role", "None"))
                    IN  <<"<" \o tag \o ">">> \o EscapeHtml(para.content)
                        \o <<"</" \o tag \o ">">>
      [] block.type = "table" ->
           LET table == ById(res.tables, block.content_id)
           IN  IF table = NotFound
               THEN <<"<table border=\"1\" id=\"\"><tbody>", "</tbody></table>">>
               ELSE TableToHtml(table)
      [] block.type = "image" ->
           LET img == ById(res.images, block.content_id)
           IN  <<"<img src=\"data:" \o Get(img, "mime_type", "image/png")
                 \o ";base64," \o Get(img, "data", "") \o "\" />">>
      [] OTHER -> <<>>

\* what one pass of the loop over content_blocks appends to html
BlockToHtml(res, block) ==
    CASE block.type = "paragraph" ->
           LET para == ById(res.paragraphs, block.content_id)
           IN  IF para = NotFound THEN <<>>
               ELSE LET tag == GetRoleTag(Get(para, "role", "None"))
                    IN  <<"<" \o tag \o ">">> \o EscapeHtml(para.content)
                        \o <<"</" \o tag \o ">">>
      [] block.type = "table" ->
           LET table == ById(res.tables, block.content_id)
           IN  IF table = NotFound THEN <<>> ELSE TableToHtml(table)
      [] block.type = "image" ->
           LET img == ById(res.images, block.content_id)
           IN  IF img = NotFound \/ Get(img, "data", "") = "" THEN <<>>
               ELSE <<"<img src=\"data:" \o Get(img, "mime_type", "image/png")
                      \o ";base64," \o img.data \o "\" />">>
      [] OTHER -> <<>>

\* the loop over content_blocks, from the html built so far
RECURSIVE RenderBlocks(_, _, _)
RenderBlocks(res, blocks, out) ==
    IF blocks = <<>> THEN out
    ELSE RenderBlocks(res, Tail(blocks), out \o BlockToHtml(res, Head(blocks)))

\* convert walking the collections (paragraphs, tables, images) instead of
\* content_blocks
ConvertHtml_CollectionOrder(res) ==
    LET Ref(type, elems) ==
            [i \in 1..Len(elems) |-> [type |-> type, content_id |-> elems[i].id]]
        listed == {<<res.content_blocks[i].type, res.content_blocks[i].content_id>> :
                      i \in 1..Len(res.content_blocks)}
        Listed(b) == <<b.type, b.content_id>> \in listed
    IN  RenderBlocks(res,
                     SelectSeq(Ref("paragraph", res.paragraphs)
                               \o Ref("table", res.tables)
                               \o Ref("image", res.images), Listed),
                     <<HtmlOpen>>)
        \o <<HtmlClose>>

ConvertHtml(res) ==
    RenderBlocks(res, Get(res, "content_blocks", <<>>), <<HtmlOpen>>)
    \o <<HtmlClose>>

\* the str that convert returns
RECURSIVE HtmlString(_)
HtmlString(pieces) ==
    IF pieces = <<>> THEN "" ELSE Head(pieces) \o HtmlString(Tail(pieces))

-----------------------------------------------------------------------------
(* Inputs of convert *)

\* most content blocks of a result handed to convert
MaxRefs == 2

ConvertTexts == {<<"a">>, <<"<", "b", "&">>}
Roles == {"None", "title", "sectionHeading"}

ConvertParagraphIds == {"para-0", "para-1"}
ConvertTableId == "table-0"
ConvertImageId == "img-0"

ConvertParagraphs(id) ==
    {[id |-> id, content |-> text, role |-> role] :
        text \in ConvertTexts, role \in Roles}

Cell(r, c, text, kind, span) ==
    [row_index |-> r, column_index |-> c, row_span |-> 1, column_span |-> span,
     content |-> text, kind |-> kind]

ConvertTables ==
    {[id |-> ConvertTableId, page_number |-> 1, rows |-> 0, columns |-> 0,
      cells |-> <<>>],
     [id |-> ConvertTableId, page_number |-> 1, rows |-> 2, columns |-> 2,
      cells |-> <<Cell(0, 0, <<"N">>, "columnHeader", 1),
                  Cell(1, 1, <<"x">>, "content", 1)>>],
     [id |-> ConvertTableId, page_number |-> 1, rows |-> 2, columns |-> 1,
      cells |-> <<Cell(0, 0, <<"<">>, "columnHeader", 1)>>],
     [id |-> ConvertTableId, page_number |-> 1, rows |-> 1, columns |-> 2,
      cells |-> <<Cell(0, 0, <<"a">>, "content", 2)>>]}

ConvertImages ==
    {[id |-> ConvertImageId, data |-> "QQ==", mime_type |-> "image/jpeg"],
     [id |-> ConvertImageId, data |-> "QQ=="],
     [id |-> ConvertImageId, data |-> "", mime_type |-> "image/png"],
     [id |-> ConvertImageId, mime_type |-> "image/png"]}

\* the paragraph collections: none, one, or both ids in either order
ConvertParagraphLists ==
    {<<>>}
    \cup {<<p>> : p \in UNION {ConvertParagraphs(id) : id \in ConvertParagraphIds}}
    \cup {<<p, q>> : p \in ConvertParagraphs("para-0"), q \in ConvertParagraphs("para-1")}
    \cup {<<q, p>> : p \in ConvertParagraphs("para-0"), q \in ConvertParagraphs("para-1")}

\* what a content block can point to; a block whose element is not in the
\* collection dangles
Refs ==
    {[type |-> "paragraph", page |-> 1, y_position |-> 0, content_id |-> id] :
        id \in ConvertParagraphIds}
    \cup {[type |-> "table", page |-> 1, y_position |-> 0, content_id |-> ConvertTableId],
          [type |-> "image", page |-> 1, y_position |-> 0, content_id |-> ConvertImageId]}

RefLists == UNION {[1..n -> Refs] : n \in 0..MaxRefs}

InitConvert ==
    /\ \E ps \in ConvertParagraphLists :
       \E ts \in {<<>>} \cup {<<t>> : t \in ConvertTables} :
       \E gs \in {<<>>} \cup {<<g>> : g \in ConvertImages} :
       \E bs \in RefLists :
         result = [model_used |-> "pymupdf", pages |-> 1, paragraphs |-> ps,
                   tables |-> ts, images |-> gs, full_text |-> <<>>,
                   content_blocks |-> bs]
    /\ paragraphs = <<>>
    /\ tables = <<>>
    /\ images = <<>>
    /\ total_pages = 0
    /\ title_threshold = DefaultTitleThreshold
    /\ heading_threshold = DefaultHeadingThreshold
    /\ html = <<>>
    /\ pc = "start"
    /\ request = <<>>
    /\ frame = <<>>
    /\ config = NoConfig
    /\ first_in_set = <<>>

\* html = html_converter.convert(result)
Convert ==
    /\ pc \in {"start", "assembled"}
    /\ result # NoResult
    /\ html' = ConvertHtml(result)
    /\ pc' = "converted"
    /\ UNCHANGED <<paragraphs, tables, images, total_pages, title_threshold,
                   heading_threshold, result, request, frame, config,
                   first_in_set>>

NextConvert == Convert

SpecConvert == InitConvert /\ [][NextConvert]_vars

-----------------------------------------------------------------------------
(* Inputs of assemble followed by convert: elements with unique ids, some    *)
(* paragraphs inside a table, some images without data.                      *)

\* most elements (paragraphs + tables + images) assembled and then rendered
MaxRendered == 3

\* the box of the tables, one inside it and one beside it
TableBox == [x_min |-> 0, y_min |-> 2, x_max |-> 4, y_max |-> 4]
InnerBox == [x_min |-> 1, y_min |-> 3, x_max |-> 2, y_max |-> 4]
OuterBox == [x_min |-> 0, y_min |-> 0, x_max |-> 4, y_max |-> 2]

RenderedParagraphs(i) ==
    {[id |-> MkId("para", i - 1), content |-> <<"<", ToString(i)>>, role |-> role,
      page_number |-> pg, bounding_box |-> box,
      font |-> [name |-> "Arial", size |-> 1200, bold |-> FALSE]] :
        role \in {"None", "title"}, pg \in Pages, box \in {InnerBox, OuterBox}}

RenderedTables(i) ==
    {[id |-> MkId("table", i - 1), page_number |-> pg, rows |-> 1, columns |-> 1,
      cells |-> <<Cell(0, 0, <<ToString(i)>>, "columnHeader", 1)>>,
      bounding_box |-> TableBox] : pg \in Pages}

RenderedImages(i) ==
    LET Base == [id |-> MkId("img", i - 1), page_number |-> 1,
                 mime_type |-> "image/png",
                 bounding_box |-> [x_min |-> 0, y_min |-> 0, x_max |-> 0, y_max |-> 0]]
    IN  {Base, Base @@ [data |-> ""], Base @@ [data |-> "QQ=="]}

RECURSIVE RenderedLists(_, _)
RenderedLists(kind, n) ==
    IF n = 0 THEN {<<>>}
    ELSE {Append(l, e) :
             l \in RenderedLists(kind, n - 1),
             e \in CASE kind = "paragraph" -> RenderedParagraphs(n)
                     [] kind = "table" -> RenderedTables(n)
                     [] kind = "image" -> RenderedImages(n)}

InitRender ==
    /\ \E np \in 0..MaxRendered : \E nt \in 0..(MaxRendered - np) :
         \E ni \in 0..(MaxRendered - np - nt) :
           /\ paragraphs \in RenderedLists("paragraph", np)
           /\ tables \in RenderedLists("table", nt)
           /\ images \in RenderedLists("image", ni)
    /\ total_pages = 0
    /\ title_threshold = DefaultTitleThreshold
    /\ heading_threshold = DefaultHeadingThreshold
    /\ result = NoResult
    /\ html = <<>>
    /\ pc = "start"
    /\ request = <<>>
    /\ frame = <<>>
    /\ config = NoConfig
    /\ first_in_set = <<>>

\* result = assembler.assemble(...) and then html_converter.convert(result)
NextRender == Assemble \/ Convert

SpecRender == InitRender /\ [][NextRender]_vars

-----------------------------------------------------------------------------
(* Inputs of convert for escaping: one paragraph, or one table of one cell,  *)
(* whose content is any text over the five special characters and some       *)
(* plain ones.                                                               *)

\* most characters of a content
MaxTextLen == 4

EscapeAlphabet == {"&", "<", ">", "\"", "'", "l", "t", ";"}

EscapeTexts == UNION {[1..n -> EscapeAlphabet] : n \in 0..MaxTextLen}

InitEscape ==
    /\ \E text \in EscapeTexts :
       \E ps \in {<<>>, <<[id |-> "para-0", content |-> text, role |-> "None"]>>} :
         LET ts == IF ps = <<>>
                   THEN <<[id |-> ConvertTableId, page_number |-> 1, rows |-> 1,
                           columns |-> 1,
                           cells |-> <<Cell(0, 0, text, "content", 1)>>]>>
                   ELSE <<>>
             block == IF ps = <<>>
                      THEN [type |-> "table", page |-> 1, y_position |-> 0,
                            content_id |-> ConvertTableId]
                      ELSE [type |-> "paragraph", page |-> 1, y_position |-> 0,
                            content_id |-> "para-0"]
         IN  result = [model_used |-> "pymupdf", pages |-> 1, paragraphs |-> ps,
                       tables |-> ts, images |-> <<>>, full_text |-> text,
                       content_blocks |-> <<block>>]
    /\ paragraphs = <<>>
    /\ tables = <<>>
    /\ images = <<>>
    /\ total_pages = 0
    /\ title_threshold = DefaultTitleThreshold
    /\ heading_threshold = DefaultHeadingThreshold
    /\ html = <<>>
    /\ pc = "start"
    /\ request = <<>>
    /\ frame = <<>>
    /\ config = NoConfig
    /\ first_in_set = <<>>

SpecEscape == InitEscape /\ [][NextConvert]_vars

-----------------------------------------------------------------------------
(* parse_page_range *)
(* The page-range string is a sequence of one-character strings.            *)

DigitValue(c) ==
    CASE c = "0" -> 0 [] c = "1" -> 1 [] c = "2" -> 2 [] c = "3" -> 3
      [] c = "4" -> 4 [] c = "5" -> 5 [] c = "6" -> 6 [] c = "7" -> 7
      [] c = "8" -> 8 [] c = "9" -> 9

IsDigit(c) == c \in {"0", "1", "2", "3", "4", "5", "6", "7", "8", "9"}

\* sep.join(parts) on character sequences
RECURSIVE Join(_, _)
Join(sep, parts) ==
    IF parts = <<>> THEN <<>>
    ELSE IF Len(parts) = 1 THEN parts[1]
    ELSE parts[1] \o <<sep>> \o Join(sep, Tail(parts))

\* the separators 0x1c, 0x1d, 0x1e and 0x1f
Separators == {"", "", "", ""}

\* the characters str.strip() removes, those of str.isspace(): the blank, the
\* newline, the tab, the carriage return, the form feed, the vertical tab
\* 0x0b, the separators, the next line 0x85 and the no-break space 0xa0 (the
\* blanks from U+1680 on cannot stand in a string of the model)
Whitespace ==
    {" ", "\n", "\t", "\r", "\f", "", "", " "} \cup Separators

\* the characters int() passes over around a literal: the separators are
\* none of them
IntBlanks == Whitespace \ Separators

\* text without the characters of blanks at its two ends
RECURSIVE StripOf(_, _)
StripOf(part, blanks) ==
    IF part = <<>> THEN <<>>
    ELSE IF Head(part) \in blanks THEN StripOf(Tail(part), blanks)
    ELSE IF part[Len(part)] \in blanks
    THEN StripOf(SubSeq(part, 1, Len(part) - 1), blanks)
    ELSE part

\* str.strip()
Strip(part) == StripOf(part, Whitespace)

\* str.split(sep): the pieces between the separators, empty pieces included
RECURSIVE Split(_, _)
Split(str, sep) ==
    LET at == {i \in 1..Len(str) : str[i] = sep}
    IN  IF at = {} THEN <<str>>
        ELSE LET i == CHOOSE k \in at : \A j \in at : k <= j
             IN  <<SubSeq(str, 1, i - 1)>> \o Split(SubSeq(str, i + 1, Len(str)), sep)

\* str.split(sep, 1) of a string that holds sep: what stands before and
\* behind the first separator
SplitOnce(str, sep) ==
    LET i == CHOOSE k \in 1..Len(str) :
                 str[k] = sep /\ \A j \in 1..(k - 1) : str[j] # sep
    IN  <<SubSeq(str, 1, i - 1), SubSeq(str, i + 1, Len(str))>>

RECURSIVE Decimal(_)
Decimal(digits) ==
    IF digits = <<>> THEN 0
    ELSE 10 * Decimal(SubSeq(digits, 1, Len(digits) - 1))
         + DigitValue(digits[Len(digits)])

\* the base class of the exception classes of the builtins that the model names
BuiltinBases ==
    [BaseException         |-> "object",
     Exception             |-> "BaseException",
     ValueError            |-> "Exception",
     UnicodeError          |-> "ValueError",
     UnicodeDecodeError    |-> "UnicodeError",
     UnicodeEncodeError    |-> "UnicodeError",
     UnicodeTranslateError |-> "UnicodeError",
     RuntimeError          |-> "Exception",
     OSError               |-> "Exception"]

\* an exception class is the list of the names of its __mro__, the class
\* first; this is the class of a builtin
RECURSIVE Mro(_)
Mro(type) ==
    IF type \in DOMAIN BuiltinBases THEN <<type>> \o Mro(BuiltinBases[type])
    ELSE <<type>>

\* io.UnsupportedOperation, which derives from OSError and from ValueError
UnsupportedOperation ==
    <<"UnsupportedOperation", "OSError">> \o Mro("ValueError")

\* an exception of a class, with the text of str(e)
ExceptionOf(class, message) ==
    [raised |-> class[1], mro |-> class, message |-> message]

\* the exception int() and parse_page_range raise
ValueError(message) == ExceptionOf(Mro("ValueError"), message)

\* int(text): the blanks of int() around the literal are ignored, then an
\* optional sign and one or more digits, where a single underscore may stand between two digits;
\* anything else is a ValueError (the decimal digits beyond ASCII, which int()
\* reads as well, are no characters of the model)
ParseInt(text) ==
    LET lit == StripOf(text, IntBlanks)
        signed == lit # <<>> /\ Head(lit) \in {"-", "+"}
        digits == IF signed THEN Tail(lit) ELSE lit
        grouped == /\ digits # <<>>
                   /\ IsDigit(digits[1]) /\ IsDigit(digits[Len(digits)])
                   /\ \A i \in 1..Len(digits) :
                        \/ IsDigit(digits[i])
                        \/ digits[i] = "_" /\ IsDigit(digits[i - 1])
                                           /\ IsDigit(digits[i + 1])
        number == Decimal(SelectSeq(digits, IsDigit))
    IN  IF grouped
        THEN [value |-> IF signed /\ Head(lit) = "-" THEN 0 - number ELSE number]
        ELSE ValueError("invalid literal for int() with base 10")

Raised(x) == "raised" \in DOMAIN x

\* ParsePart that passes over a part it cannot read instead of raising
ParsePart_SkipBad(raw) ==
    LET part == Strip(raw)
    IN  IF \E i \in 1..Len(part) : part[i] = "-"
        THEN LET halves == SplitOnce(part, "-")
                 start == ParseInt(Strip(halves[1]))
                 end == ParseInt(Strip(halves[2]))
             IN  IF Raised(start) \/ Raised(end) THEN [pages |-> {}]
                 ELSE [pages |-> start.value..end.value]
        ELSE LET page == ParseInt(part)
             IN  IF Raised(page) THEN [pages |-> {}] ELSE [pages |-> {page.value}]

\* one pass of the loop of parse_page_range: the pages a part adds, or the
\* exception it raises
ParsePart(raw) ==
    LET part == Strip(raw)
    IN  IF \E i \in 1..Len(part) : part[i] = "-"
        THEN LET halves == SplitOnce(part, "-")
                 start == ParseInt(Strip(halves[1]))
                 end == ParseInt(Strip(halves[2]))
             IN  IF Raised(start) THEN start
                 ELSE IF Raised(end) THEN end
                 ELSE IF start.value > end.value
                 THEN ValueError("Invalid page range (start > end)")
                 ELSE [pages |-> start.value..end.value]
        ELSE LET page == ParseInt(part)
             IN  IF Raised(page) THEN page ELSE [pages |-> {page.value}]

\* sorted(list(pages))
RECURSIVE Sorted(_)
Sorted(pages) ==
    IF pages = {} THEN <<>>
    ELSE LET least == CHOOSE n \in pages : \A m \in pages : n <= m
         IN  <<least>> \o Sorted(pages \ {least})

\* the loop over the parts, from the set "pages" built so far
RECURSIVE ParseParts(_, _)
ParseParts(parts, pages) ==
    IF parts = <<>> THEN [value |-> Sorted(pages)]
    ELSE LET added == ParsePart(Head(parts))
         IN  IF Raised(added) THEN added
             ELSE ParseParts(Tail(parts), pages \cup added.pages)

\* the sorted list of a list of numbers, duplicates kept
RECURSIVE SortedList(_)
SortedList(nums) ==
    IF nums = <<>> THEN <<>>
    ELSE LET i == CHOOSE k \in 1..Len(nums) : \A j \in 1..Len(nums) : nums[k] <= nums[j]
         IN  <<nums[i]>> \o SortedList(SubSeq(nums, 1, i - 1) \o SubSeq(nums, i + 1, Len(nums)))

\* parse_page_range collecting the pages in a list instead of a set
RECURSIVE ParsePageRange_List(_)
ParsePageRange_List(page_range) ==
    LET parts == Split(page_range, ",")
        first == ParsePart(Head(parts))
        rest == IF Len(parts) = 1 THEN [value |-> <<>>]
                ELSE ParsePageRange_List(Join(",", Tail(parts)))
    IN  IF Raised(first) THEN first
        ELSE IF Raised(rest) THEN rest
        ELSE [value |-> SortedList(Sorted(first.pages) \o rest.value)]

\* parse_page_range(page_range): the list it returns as [value |-> list], or
\* the exception it raises
ParsePageRange(page_range) == ParseParts(Split(page_range, ","), {})

-----------------------------------------------------------------------------
(* TextExtractionBackend: extraction of one page *)
(* What the PDF engine hands over is data of the model: a document is        *)
(* [corrupt |-> TRUE] or [pages |-> list of pages]; a page is                *)
(* [blocks, tables, images]: the blocks of get_text("dict"), the outcome of  *)
(* find_tables() ([raises |-> TRUE] or [found |-> list of [bbox,             *)
(* extracted]]) and the entries of get_images(), each with the outcome of    *)
(* extract_image ([raises |-> TRUE], [empty |-> TRUE] or [ext, image]) and   *)
(* of get_image_rects ([raises |-> TRUE] or [found |-> list of rects]).      *)

\* a cell of table.extract() that is None (no string is one multi-character
\* entry)
NoneCell == <<"None">>

\* sum(font_sizes): the floats are added one by one, from the left
RECURSIVE FloatSum(_, _)
FloatSum(acc, font_sizes) ==
    IF font_sizes = <<>> THEN acc
    ELSE FloatSum(FloatAdd(acc, FloatOf(Head(font_sizes), 100)), Tail(font_sizes))

\* round(sum(font_sizes) / len(font_sizes), 1) in hundredths, for sizes >= 0:
\* the tenth nearest to the mean.  When the exact mean lies between two
\* tenths, the float of the mean, with the rounding of each addition and of
\* the division, decides.
RoundMean(font_sizes) ==
    LET total == Sum(font_sizes)
        count == Len(font_sizes)
        low == ((total \div count) \div 10) * 10
        rest == total - low * count
    IN  IF 2 * rest < 10 * count THEN low
        ELSE IF 2 * rest > 10 * count THEN low + 10
        ELSE RoundTenth(FloatDivInt(FloatSum(FloatOf(0, 1), font_sizes), count))

\* the spans of a line that hold text, in order
TextSpans(line) ==
    LET HasText(span) == Strip(Get(span, "text", <<>>)) # <<>>
    IN  SelectSeq(Get(line, "spans", <<>>), HasText)

\* all spans of a block that hold text
RECURSIVE BlockSpans(_)
BlockSpans(lines) ==
    IF lines = <<>> THEN <<>> ELSE TextSpans(Head(lines)) \o BlockSpans(Tail(lines))

\* block_text_parts: one entry per line that has a span with text
BlockTextParts(lines) ==
    LET HasSpans(line) == TextSpans(line) # <<>>
        kept == SelectSeq(lines, HasSpans)
    IN  [i \in 1..Len(kept) |->
            Join(" ", [k \in 1..Len(TextSpans(kept[i])) |-> TextSpans(kept[i])[k].text])]

\* the names that font_names holds most often
MostUsed(font_names) ==
    LET names == {font_names[i] : i \in 1..Len(font_names)}
        Count(n) == Cardinality({i \in 1..Len(font_names) : font_names[i] = n})
    IN  {n \in names : \A m \in names : Count(m) <= Count(n)}

\* max(set(font_names), key=font_names.count): the name used most often, and
\* of several such names the one that the iteration of the set meets first
PrimaryFont(font_names) ==
    IF font_names = <<>> THEN ""
    ELSE IF Cardinality(MostUsed(font_names)) = 1
    THEN CHOOSE n \in MostUsed(font_names) : TRUE
    ELSE first_in_set[font_names]

\* font_names: the font of every span of the block that holds text
FontNames(block) ==
    LET spans == BlockSpans(Get(block, "lines", <<>>))
    IN  [i \in 1..Len(spans) |-> Get(spans[i], "font", "")]

\* flags & 16
BoldFlag(flags) == (flags \div 16) % 2 = 1

BBoxOf(bbox) ==
    [x_min |-> bbox[1], y_min |-> bbox[2], x_max |-> bbox[3], y_max |-> bbox[4]]

\* the paragraph a text block becomes, with the id of this counter
ParagraphOf(block, page_num, counter) ==
    LET spans == BlockSpans(Get(block, "lines", <<>>))
        font_sizes == [i \in 1..Len(spans) |-> Get(spans[i], "size", DefaultFontSize)]
        font_names == FontNames(block)
        is_bold == \E i \in 1..Len(spans) : BoldFlag(Get(spans[i], "flags", 0))
    IN  [id           |-> MkId("para", counter),
         content      |-> Strip(Join("\n", BlockTextParts(Get(block, "lines", <<>>)))),
         role         |-> "None",
         page_number  |-> page_num,
         bounding_box |-> BBoxOf(block.bbox),
         font         |-> [name |-> PrimaryFont(font_names),
                           size |-> IF font_sizes = <<>> THEN DefaultFontSize
                                    ELSE RoundMean(font_sizes),
                           bold |-> is_bold]]

\* a block of get_text("dict") that becomes a paragraph: a text block
\* (type 0) whose stripped text is not empty
IsParagraphBlock(block) ==
    /\ Get(block, "type", 1) = 0
    /\ Strip(Join("\n", BlockTextParts(Get(block, "lines", <<>>)))) # <<>>

\* _extract_paragraphs(page, page_num, counter): (paragraphs, counter)
RECURSIVE ExtractParagraphs(_, _, _)
ExtractParagraphs(blocks, page_num, counter) ==
    IF blocks = <<>> THEN [items |-> <<>>, counter |-> counter]
    ELSE IF ~IsParagraphBlock(Head(blocks))
    THEN ExtractParagraphs(Tail(blocks), page_num, counter)
    ELSE LET rest == ExtractParagraphs(Tail(blocks), page_num, counter + 1)
         IN  [items   |-> <<ParagraphOf(Head(blocks), page_num, counter)>> \o rest.items,
              counter |-> rest.counter]

\* the cells of an extracted grid, row by row
TableCells(extracted) ==
    ConcatAll([r \in 1..Len(extracted) |->
                 [c \in 1..Len(extracted[r]) |->
                     [row_index    |-> r - 1,
                      column_index |-> c - 1,
                      row_span     |-> 1,
                      column_span  |-> 1,
                      content      |-> IF extracted[r][c] = NoneCell THEN <<>>
                                       ELSE extracted[r][c],
                      kind         |-> IF r = 1 THEN "columnHeader" ELSE "content"]]])

\* max(len(row) for row in extracted)
MaxRowLen(extracted) ==
    LET lens == {Len(extracted[r]) : r \in 1..Len(extracted)}
    IN  CHOOSE n \in lens : \A m \in lens : m <= n

TableOf(table, page_num, counter) ==
    [id           |-> MkId("table", counter),
     page_number  |-> page_num,
     rows         |-> Len(table.extracted),
     columns      |-> MaxRowLen(table.extracted),
     cells        |-> TableCells(table.extracted),
     bounding_box |-> BBoxOf(table.bbox)]

\* the loop of _extract_tables over found_tables.tables: every table takes a
\* number, also one whose extract() is empty and is left out
RECURSIVE ExtractFoundTables(_, _, _)
ExtractFoundTables(found, page_num, counter) ==
    IF found = <<>> THEN [items |-> <<>>, counter |-> counter]
    ELSE LET rest == ExtractFoundTables(Tail(found), page_num, counter + 1)
         IN  IF Head(found).extracted = <<>> THEN rest
             ELSE [items   |-> <<TableOf(Head(found), page_num, counter)>> \o rest.items,
                   counter |-> rest.counter]

\* _extract_tables without the try around find_tables(): the exception of the
\* engine leaves the method
ExtractTables_Uncaught(page, page_num, counter) ==
    IF "raises" \in DOMAIN page.tables
    THEN ExceptionOf(Mro("Exception"), "find_tables failed")
    ELSE ExtractFoundTables(page.tables.found, page_num, counter)

\* _extract_tables(page, page_num, counter): (tables, counter); a failing
\* find_tables() is logged and gives no tables
ExtractTables(page, page_num, counter) ==
    IF "raises" \in DOMAIN page.tables
    THEN [items |-> <<>>, counter |-> counter]
    ELSE ExtractFoundTables(page.tables.found, page_num, counter)

\* the base64 alphabet
B64Chars ==
    <<"A", "B", "C", "D", "E", "F", "G", "H", "I", "J", "K", "L", "M", "N", "O",
      "P", "Q", "R", "S", "T", "U", "V", "W", "X", "Y", "Z", "a", "b", "c", "d",
      "e", "f", "g", "h", "i", "j", "k", "l", "m", "n", "o", "p", "q", "r", "s",
      "t", "u", "v", "w", "x", "y", "z", "0", "1", "2", "3", "4", "5", "6", "7",
      "8", "9", "+", "/">>

\* base64.b64encode(bytes).decode("utf-8"): three bytes give four characters,
\* a last group of one or two bytes is padded with "="
RECURSIVE B64Encode(_)
B64Encode(bytes) ==
    IF bytes = <<>> THEN ""
    ELSE LET b1 == bytes[1]
             b2 == IF Len(bytes) >= 2 THEN bytes[2] ELSE 0
             b3 == IF Len(bytes) >= 3 THEN bytes[3] ELSE 0
             bits == b1 * 65536 + b2 * 256 + b3
         IN  B64Chars[(bits \div 262144) + 1]
             \o B64Chars[((bits \div 4096) % 64) + 1]
             \o (IF Len(bytes) >= 2 THEN B64Chars[((bits \div 64) % 64) + 1] ELSE "=")
             \o (IF Len(bytes) >= 3 THEN B64Chars[(bits % 64) + 1] ELSE "=")
             \o (IF Len(bytes) > 3 THEN B64Encode(SubSeq(bytes, 4, Len(bytes))) ELSE "")

ZeroBBox == [x_min |-> 0, y_min |-> 0, x_max |-> 0, y_max |-> 0]

ImageOf(img, page_num, counter) ==
    [id           |-> MkId("img", counter),
     page_number  |-> page_num,
     mime_type    |-> "image/" \o img.extracted.ext,
     data         |-> B64Encode(img.extracted.image),
     bounding_box |-> IF img.rects.found = <<>> THEN ZeroBBox
                      ELSE BBoxOf(img.rects.found[1])]

\* _extract_images(doc, page, page_num, counter): (images, counter).  An
\* image whose extract_image raises or returns nothing takes no number; one
\* whose get_image_rects raises has taken its number and is left out.
RECURSIVE ExtractImages(_, _, _)
ExtractImages(imgs, page_num, counter) ==
    IF imgs = <<>> THEN [items |-> <<>>, counter |-> counter]
    ELSE LET img == Head(imgs)
         IN  IF "raises" \in DOMAIN img.extracted \/ "empty" \in DOMAIN img.extracted
             THEN ExtractImages(Tail(imgs), page_num, counter)
             ELSE LET rest == ExtractImages(Tail(imgs), page_num, counter + 1)
                  IN  IF "raises" \in DOMAIN img.rects THEN rest
                      ELSE [items   |-> <<ImageOf(img, page_num, counter)>> \o rest.items,
                            counter |-> rest.counter]

-----------------------------------------------------------------------------
(* TextExtractionBackend.process *)
(* request[t] holds the arguments of invocation t and frame[t] its local     *)
(* variables; a step of an invocation is one statement group of process.     *)

NoException == [none |-> TRUE]
NotReturned == [nothing |-> TRUE]

SupportedOperations == {"extract"}

\* the cased letters of ASCII (the strings of the model hold no other cased
\* character)
UpperLetters ==
    <<"A", "B", "C", "D", "E", "F", "G", "H", "I", "J", "K", "L", "M",
      "N", "O", "P", "Q", "R", "S", "T", "U", "V", "W", "X", "Y", "Z">>
LowerLetters ==
    <<"a", "b", "c", "d", "e", "f", "g", "h", "i", "j", "k", "l", "m",
      "n", "o", "p", "q", "r", "s", "t", "u", "v", "w", "x", "y", "z">>

\* str.lower() on a sequence of characters: every upper-case letter becomes
\* its lower-case letter, every other character stays
Lower(str) ==
    [i \in 1..Len(str) |->
        IF \E k \in 1..Len(UpperLetters) : UpperLetters[k] = str[i]
        THEN LowerLetters[CHOOSE k \in 1..Len(UpperLetters) : UpperLetters[k] = str[i]]
        ELSE str[i]]

OutputFormat(options) == Get(options, "output_format", "json")

\* options.get("include_images", "false").lower() == "true"
IncludeImages(options) ==
    Lower(Get(options, "include_images", <<"f", "a", "l", "s", "e">>))
        = <<"t", "r", "u", "e">>
PageRange(options) == Get(options, "pages", <<>>)

\* the locals of an invocation that has not run a statement yet
NewFrame ==
    [pc              |-> "start",
     doc             |-> "unopened",
     closes          |-> 0,
     total_pages     |-> 0,
     page_numbers    |-> <<>>,
     index           |-> 1,
     all_paragraphs  |-> <<>>,
     all_tables      |-> <<>>,
     all_images      |-> <<>>,
     para_counter    |-> 0,
     table_counter   |-> 0,
     img_counter     |-> 0,
     pages_processed |-> 0,
     exception       |-> NoException,
     result          |-> NoResult,
     returned        |-> NotReturned]

\* Config(): the values of the environment (the defaults "18", "14", "50"
\* and "100")
LoadedConfig ==
    [loaded |-> TRUE,
     title_font_size_threshold   |-> DefaultTitleThreshold,
     heading_font_size_threshold |-> DefaultHeadingThreshold,
     text_layer_char_threshold   |-> 50,
     max_file_size_mb            |-> 100]

\* get_config()
GetConfig(cfg) == IF cfg = NoConfig THEN LoadedConfig ELSE cfg

\* the frame with some locals assigned
Assign(f, new) == [k \in DOMAIN f |-> IF k \in DOMAIN new THEN new[k] ELSE f[k]]

\* supports(operation) and pymupdf.open(stream=data, filetype="pdf"): the
\* frame after them
OpenStep(f, req) ==
    IF req.operation \notin SupportedOperations
    THEN Assign(f, [pc |-> "raised",
                    exception |-> ValueError(<<"Operation '", req.operation,
                                             "' not supported">>)])
    ELSE IF "corrupt" \in DOMAIN req.data
    THEN Assign(f, [pc |-> "raised",
                    exception |-> ValueError("Invalid or corrupted PDF file")])
    ELSE Assign(f, [pc |-> "select", doc |-> "open",
                    total_pages |-> Len(req.data.pages)])

OpenDocument(t) ==
    /\ frame[t].pc = "start"
    /\ frame' = [frame EXCEPT ![t] = OpenStep(@, request[t])]
    /\ UNCHANGED <<paragraphs, tables, images, total_pages, title_threshold,
                   heading_threshold, result, html, pc, request, config,
                   first_in_set>>

\* the pages to process: the parsed page range, or every page of the document
SelectStep(f, req) ==
    LET page_range == PageRange(req.options)
        parsed == IF page_range # <<>> THEN ParsePageRange(page_range)
                  ELSE [value |-> [i \in 1..f.total_pages |-> i]]
    IN  IF Raised(parsed)
        THEN Assign(f, [pc |-> "close", exception |-> parsed])
        ELSE Assign(f, [pc |-> IF parsed.value = <<>> THEN "close" ELSE "pages",
                        page_numbers |-> parsed.value])

SelectPages(t) ==
    /\ frame[t].pc = "select"
    /\ frame' = [frame EXCEPT ![t] = SelectStep(@, request[t])]
    /\ UNCHANGED <<paragraphs, tables, images, total_pages, title_threshold,
                   heading_threshold, result, html, pc, request, config,
                   first_in_set>>

\* what page.get_text raises on a page that the engine cannot read: an
\* exception of the class the page names
EngineError(page) == ExceptionOf(page.unreadable, "cannot read page")

\* the frame after the body of the loop has extracted a page as page_num
ExtractedPage(f, req, page, page_num, after) ==
    LET found_paragraphs == ExtractParagraphs(page.blocks, page_num, f.para_counter)
        found_tables == ExtractTables(page, page_num, f.table_counter)
        found_images == IF IncludeImages(req.options)
                        THEN ExtractImages(page.images, page_num, f.img_counter)
                        ELSE [items |-> <<>>, counter |-> f.img_counter]
    IN  IF "unreadable" \in DOMAIN page
        THEN Assign(f, [pc |-> "close", exception |-> EngineError(page),
                        pages_processed |-> f.pages_processed + 1])
        ELSE IF Raised(found_tables)
        THEN Assign(f, [pc |-> "close", exception |-> found_tables,
                        pages_processed |-> f.pages_processed + 1,
                        para_counter |-> found_paragraphs.counter])
        ELSE Assign(f,
               [pc              |-> after,
                index           |-> f.index + 1,
                pages_processed |-> f.pages_processed + 1,
                para_counter    |-> found_paragraphs.counter,
                table_counter   |-> found_tables.counter,
                img_counter     |-> found_images.counter,
                all_paragraphs  |-> f.all_paragraphs \o found_paragraphs.items,
                all_tables      |-> f.all_tables \o found_tables.items,
                all_images      |-> f.all_images \o found_images.items])

\* PageStep without "page_num < 1" in the bounds test: doc[page_num - 1] of
\* page 0 is doc[-1], the last page
PageStep_NoLowerBound(f, req) ==
    LET page_num == f.page_numbers[f.index]
        after == IF f.index = Len(f.page_numbers) THEN "close" ELSE "pages"
    IN  IF page_num > f.total_pages \/ f.total_pages = 0
        THEN Assign(f, [pc |-> after, index |-> f.index + 1])
        ELSE ExtractedPage(f, req,
                           req.data.pages[IF page_num < 1 THEN f.total_pages
                                          ELSE page_num],
                           page_num, after)

\* PageStep handing 0 to the extractors instead of the running counters
PageStep_CountersFromZero(f, req) ==
    LET page_num == f.page_numbers[f.index]
        after == IF f.index = Len(f.page_numbers) THEN "close" ELSE "pages"
    IN  IF page_num < 1 \/ page_num > f.total_pages
        THEN Assign(f, [pc |-> after, index |-> f.index + 1])
        ELSE Assign(ExtractedPage(Assign(f, [para_counter |-> 0, table_counter |-> 0,
                                             img_counter |-> 0]),
                                  req, req.data.pages[page_num], page_num, after),
                    [all_paragraphs |->
                         f.all_paragraphs
                         \o ExtractParagraphs(req.data.pages[page_num].blocks,
                                              page_num, 0).items,
                     all_tables |->
                         f.all_tables
                         \o ExtractTables(req.data.pages[page_num], page_num, 0).items,
                     all_images |->
                         f.all_images
                         \o (IF IncludeImages(req.options)
                             THEN ExtractImages(req.data.pages[page_num].images,
                                                page_num, 0).items
                             ELSE <<>>)])

\* one pass of the loop over page_numbers: the frame after it
PageStep(f, req) ==
    LET page_num == f.page_numbers[f.index]
        after == IF f.index = Len(f.page_numbers) THEN "close" ELSE "pages"
    IN  IF page_num < 1 \/ page_num > f.total_pages
        THEN Assign(f, [pc |-> after, index |-> f.index + 1])
        ELSE ExtractedPage(f, req, req.data.pages[page_num], page_num, after)

\* the highest value a counter has in any invocation
HighestCounter(name) ==
    CHOOSE n \in {frame[u][name] : u \in DOMAIN frame} :
        \A u \in DOMAIN frame : frame[u][name] <= n

\* ExtractPage with the three id counters kept on the backend instance, where
\* every invocation reads and advances the same ones
ExtractPage_SharedCounters(t) ==
    /\ frame[t].pc = "pages"
    /\ frame' = [frame EXCEPT ![t] =
         PageStep(Assign(@, [para_counter  |-> HighestCounter("para_counter"),
                             table_counter |-> HighestCounter("table_counter"),
                             img_counter   |-> HighestCounter("img_counter")]),
                  request[t])]
    /\ UNCHANGED <<paragraphs, tables, images, total_pages, title_threshold,
                   heading_threshold, result, html, pc, request, config,
                   first_in_set>>

ExtractPage(t) ==
    /\ frame[t].pc = "pages"
    /\ frame' = [frame EXCEPT ![t] = PageStep(@, request[t])]
    /\ UNCHANGED <<paragraphs, tables, images, total_pages, title_threshold,
                   heading_threshold, result, html, pc, request, config,
                   first_in_set>>

\* CloseStep with doc.close() after the loop instead of in a finally clause
CloseStep_NoFinally(f) ==
    IF f.exception = NoException
    THEN Assign(f, [pc |-> "classify", doc |-> "closed", closes |-> f.closes + 1])
    ELSE Assign(f, [pc |-> "raised"])

\* finally: doc.close(); a pending exception goes on to the caller
CloseStep(f) ==
    Assign(f, [pc |-> IF f.exception = NoException THEN "classify" ELSE "raised",
               doc |-> "closed", closes |-> f.closes + 1])

CloseDocument(t) ==
    /\ frame[t].pc = "close"
    /\ frame' = [frame EXCEPT ![t] = CloseStep(@)]
    /\ UNCHANGED <<paragraphs, tables, images, total_pages, title_threshold,
                   heading_threshold, result, html, pc, request, config,
                   first_in_set>>

\* self.role_detector.classify(all_paragraphs, ...) with the thresholds of cfg
ClassifyStep(f, cfg) ==
    Assign(f, [pc |-> "assemble",
               all_paragraphs |->
                   ClassifyParagraphs(f.all_paragraphs,
                                      cfg.title_font_size_threshold,
                                      cfg.heading_font_size_threshold)])

\* config = get_config(); self.role_detector.classify(all_paragraphs, ...)
ClassifyRoles(t) ==
    /\ frame[t].pc = "classify"
    /\ config' = GetConfig(config)
    /\ frame' = [frame EXCEPT ![t] = ClassifyStep(@, GetConfig(config))]
    /\ UNCHANGED <<paragraphs, tables, images, total_pages, title_threshold,
                   heading_threshold, result, html, pc, request,
                   first_in_set>>

\* result = self.assembler.assemble(...)
AssembleStep(f, req) ==
    Assign(f, [pc |-> "format",
               result |->
                   AssembleResult(f.all_paragraphs, f.all_tables,
                                  IF IncludeImages(req.options)
                                  THEN f.all_images ELSE <<>>,
                                  IF PageRange(req.options) = <<>>
                                  THEN f.total_pages
                                  ELSE Len(f.page_numbers))])

AssembleModel(t) ==
    /\ frame[t].pc = "assemble"
    /\ frame' = [frame EXCEPT ![t] = AssembleStep(@, request[t])]
    /\ UNCHANGED <<paragraphs, tables, images, total_pages, title_threshold,
                   heading_threshold, result, html, pc, request, config,
                   first_in_set>>

\* the output in the requested format, the metadata, and the return
\* FormatStep with a renderer that escapes the cell contents in place, in
\* the tables of the model
FormatStep_EscapesInPlace(f, req) ==
    LET Escaped(table) ==
            [table EXCEPT !.cells =
                [c \in 1..Len(table.cells) |->
                    [table.cells[c] EXCEPT !.content = EscapeHtml(table.cells[c].content)]]]
        written == [f.result EXCEPT !.tables =
                       [i \in 1..Len(f.result.tables) |-> Escaped(f.result.tables[i])]]
        html_out == OutputFormat(req.options) = "html"
    IN  Assign(f, [pc |-> "done",
                   result |-> IF html_out THEN written ELSE f.result,
                   returned |->
                       [output_data |-> IF html_out THEN ConvertHtml(f.result)
                                        ELSE f.result,
                        fmt      |-> IF html_out THEN "html" ELSE "json",
                        metadata |-> [pages_processed  |-> ToString(f.pages_processed),
                                      total_paragraphs |-> ToString(Len(f.all_paragraphs)),
                                      total_tables     |-> ToString(Len(f.all_tables)),
                                      model_used       |-> "pymupdf"]]])

FormatStep(f, req) ==
    Assign(f, [pc |-> "done",
               returned |->
                   [output_data |-> IF OutputFormat(req.options) = "html"
                                    THEN ConvertHtml(f.result) ELSE f.result,
                    fmt      |-> IF OutputFormat(req.options) = "html"
                                 THEN "html" ELSE "json",
                    metadata |-> [pages_processed  |-> ToString(f.pages_processed),
                                  total_paragraphs |-> ToString(Len(f.all_paragraphs)),
                                  total_tables     |-> ToString(Len(f.all_tables)),
                                  model_used       |-> "pymupdf"]]])

FormatOutput(t) ==
    /\ frame[t].pc = "format"
    /\ frame' = [frame EXCEPT ![t] = FormatStep(@, request[t])]
    /\ UNCHANGED <<paragraphs, tables, images, total_pages, title_threshold,
                   heading_threshold, result, html, pc, request, config,
                   first_in_set>>

\* reload_config(): _config becomes a new Config(), whatever it was; the
\* environment it reads keeps its values
ReloadConfig ==
    /\ config' = LoadedConfig
    /\ UNCHANGED <<paragraphs, tables, images, total_pages, title_threshold,
                   heading_threshold, result, html, pc, request, frame,
                   first_in_set>>

NextProcess ==
    \/ \E t \in DOMAIN frame :
        \/ OpenDocument(t)
        \/ SelectPages(t)
        \/ ExtractPage(t)
        \/ CloseDocument(t)
        \/ ClassifyRoles(t)
        \/ AssembleModel(t)
        \/ FormatOutput(t)
    \/ ReloadConfig

-----------------------------------------------------------------------------
(* TextLayerDetectionBackend.process *)
(* A frame of this backend holds its locals; the text of a page, as          *)
(* get_text("text") gives it, is the field text of the page.                 *)

DetectOperations == {"detect_text_layer"}

NewDetectFrame ==
    [pc        |-> "detect",
     doc       |-> "unopened",
     closes    |-> 0,
     threshold |-> 0,
     page_num  |-> 0,
     pages     |-> <<>>,
     exception |-> NoException,
     result    |-> NoResult,
     returned  |-> NotReturned]

\* supports(operation), the threshold and pymupdf.open: the frame after them
DetectOpenStep(f, req, cfg) ==
    IF req.operation \notin DetectOperations
    THEN Assign(f, [pc |-> "raised",
                    exception |-> ValueError(<<"Operation '", req.operation,
                                             "' not supported">>)])
    ELSE LET threshold == IF "char_threshold" \in DOMAIN req.options
                          THEN ParseInt(req.options.char_threshold)
                          ELSE [value |-> cfg.text_layer_char_threshold]
         IN  IF Raised(threshold)
             THEN Assign(f, [pc |-> "raised", exception |-> threshold])
             ELSE IF "corrupt" \in DOMAIN req.data
             THEN Assign(f, [pc |-> "raised", threshold |-> threshold.value,
                             exception |-> ValueError("Invalid or corrupted PDF file")])
             ELSE Assign(f, [pc |-> IF req.data.pages = <<>> THEN "detect_close"
                                    ELSE "detect_pages",
                             doc |-> "open", threshold |-> threshold.value])

\* get_config() runs behind the test of the operation: a call that raises
\* there leaves _config as it is
DetectOpen(t) ==
    /\ frame[t].pc = "detect"
    /\ config' = IF request[t].operation \in DetectOperations
                 THEN GetConfig(config) ELSE config
    /\ frame' = [frame EXCEPT ![t] = DetectOpenStep(@, request[t], GetConfig(config))]
    /\ UNCHANGED <<paragraphs, tables, images, total_pages, title_threshold,
                   heading_threshold, result, html, pc, request,
                   first_in_set>>

\* one pass of the loop over range(len(doc))
DetectPageStep(f, req) ==
    LET page == req.data.pages[f.page_num + 1]
        char_count == Len(Strip(page.text))
        after == IF f.page_num + 1 = Len(req.data.pages) THEN "detect_close"
                 ELSE "detect_pages"
    IN  IF "unreadable" \in DOMAIN page
        THEN Assign(f, [pc |-> "detect_close", exception |-> EngineError(page)])
        ELSE Assign(f, [pc |-> after, page_num |-> f.page_num + 1,
                        pages |-> Append(f.pages,
                                         [page |-> f.page_num + 1,
                                          has_text_layer |-> char_count >= f.threshold,
                                          char_count |-> char_count])])

DetectPage(t) ==
    /\ frame[t].pc = "detect_pages"
    /\ frame' = [frame EXCEPT ![t] = DetectPageStep(@, request[t])]
    /\ UNCHANGED <<paragraphs, tables, images, total_pages, title_threshold,
                   heading_threshold, result, html, pc, request, config,
                   first_in_set>>

\* finally: doc.close(); a pending exception goes on to the caller
DetectCloseStep(f) ==
    Assign(f, [pc |-> IF f.exception = NoException THEN "detect_result" ELSE "raised",
               doc |-> "closed", closes |-> f.closes + 1])

DetectClose(t) ==
    /\ frame[t].pc = "detect_close"
    /\ frame' = [frame EXCEPT ![t] = DetectCloseStep(@)]
    /\ UNCHANGED <<paragraphs, tables, images, total_pages, title_threshold,
                   heading_threshold, result, html, pc, request, config,
                   first_in_set>>

\* the result, the metadata, and the return
DetectResultStep(f) ==
    LET detected == [total_pages |-> Len(f.pages), pages |-> f.pages]
        with_text == Cardinality({i \in 1..Len(f.pages) : f.pages[i].has_text_layer})
    IN  Assign(f, [pc |-> "done",
                   result |-> detected,
                   returned |->
                       [output_data |-> detected,
                        fmt      |-> "json",
                        metadata |-> [total_pages     |-> ToString(Len(f.pages)),
                                      pages_with_text |-> ToString(with_text),
                                      threshold       |-> ToString(f.threshold)]]])

DetectResult(t) ==
    /\ frame[t].pc = "detect_result"
    /\ frame' = [frame EXCEPT ![t] = DetectResultStep(@)]
    /\ UNCHANGED <<paragraphs, tables, images, total_pages, title_threshold,
                   heading_threshold, result, html, pc, request, config,
                   first_in_set>>

\* a step of an invocation of either backend
NextBackends ==
    \/ \E t \in DOMAIN frame :
        \/ OpenDocument(t)
        \/ SelectPages(t)
        \/ ExtractPage(t)
        \/ CloseDocument(t)
        \/ ClassifyRoles(t)
        \/ AssembleModel(t)
        \/ FormatOutput(t)
        \/ DetectOpen(t)
        \/ DetectPage(t)
        \/ DetectClose(t)
        \/ DetectResult(t)
    \/ ReloadConfig

-----------------------------------------------------------------------------
(* Inputs of parse_page_range: the "pages" option of an invocation whose     *)
(* document is open, made of comma-separated parts.                          *)

\* most parts of a page-range string
MaxParts == 3

\* singles, ranges (with blanks, overlapping, start > end) and malformed parts
RangeParts ==
    {<<"1">>, <<"3">>, <<" ", "2", " ">>,
     <<"5", "-", "7">>, <<"1", "-", "3">>, <<"2", " ", "-", " ", "3">>,
     <<"3", "-", "1">>,
     <<>>, <<"x">>, <<"1", "-">>, <<"-", "1">>, <<"1", "-", "2", "-", "3">>,
     <<"1", " ", "2">>, <<"\r", "2", "\f">>, <<"0", "_", "3">>, <<"_", "1">>,
     <<"", "1">>, <<"1", "-", "", "3", " ">>}

RangeStrings ==
    {Join(",", parts) : parts \in UNION {[1..n -> RangeParts] : n \in 1..MaxParts}}
    \ {<<>>}

\* a page without text, tables or images
BlankPage == [blocks |-> <<>>, tables |-> [found |-> <<>>], images |-> <<>>]

InitParse ==
    /\ \E str \in RangeStrings :
         request = <<[data |-> [pages |-> <<BlankPage>>], operation |-> "extract",
                      options |-> [pages |-> str]]>>
    /\ frame = <<Assign(NewFrame, [pc |-> "select", doc |-> "open", total_pages |-> 1])>>
    /\ config = NoConfig
    /\ first_in_set = <<>>
    /\ paragraphs = <<>>
    /\ tables = <<>>
    /\ images = <<>>
    /\ total_pages = 0
    /\ title_threshold = DefaultTitleThreshold
    /\ heading_threshold = DefaultHeadingThreshold
    /\ result = NoResult
    /\ html = <<>>
    /\ pc = "start"

NextParse == \E t \in DOMAIN frame : SelectPages(t)

SpecParse == InitParse /\ [][NextParse]_vars

-----------------------------------------------------------------------------
(* Inputs of process: the documents the engine can hand over and the options *)

\* most pages of a document
MaxDocPages == 2

Span(text, size, font, flags) ==
    [text |-> text, size |-> size, font |-> font, flags |-> flags]

TextBlock(bbox, lines) == [type |-> 0, bbox |-> bbox, lines |-> lines]

\* a bold 24 pt line, a two-line 12 pt text with blanks around it and a span
\* of blanks, and an image block
TextPage ==
    [blocks |-> <<TextBlock(<<0, 0, 4, 1>>,
                            <<[spans |-> <<Span(<<"T">>, 2400, "Arial-Bold", 16)>>]>>),
                  [type |-> 1, bbox |-> <<0, 1, 4, 2>>],
                  TextBlock(<<0, 2, 4, 3>>,
                            <<[spans |-> <<Span(<<" ", "a">>, 1200, "Arial", 0),
                                           Span(<<" ">>, 1000, "Courier", 0)>>],
                              [spans |-> <<Span(<<"b", " ">>, 1200, "Arial", 4)>>]>>)>>,
     tables |-> [found |-> <<>>],
     images |-> <<>>]

\* a heading above a table, a text inside the table, a block of blanks; the
\* first table found has an empty extract, the second a ragged grid with a
\* None cell
TablePage ==
    [blocks |-> <<TextBlock(<<1, 2, 3, 3>>,
                            <<[spans |-> <<Span(<<"x">>, 1200, "Arial", 0)>>]>>),
                  TextBlock(<<0, 5, 4, 6>>,
                            <<[spans |-> <<Span(<<" ">>, 1200, "Arial", 0)>>]>>),
                  TextBlock(<<0, 0, 4, 1>>,
                            <<[spans |-> <<Span(<<"h">>, 1300, "Arial", 16),
                                           Span(<<"h">>, 1500, "Arial", 0)>>]>>)>>,
     tables |-> [found |-> <<[bbox |-> <<0, 4, 4, 5>>, extracted |-> <<>>],
                             [bbox |-> <<0, 1, 4, 4>>,
                              extracted |-> <<<<<<"H">>, NoneCell>>, <<<<"&">>>>>>]>>],
     images |-> <<>>]

\* find_tables() fails on this page; it has a text and an image
BrokenTablePage ==
    [blocks |-> <<TextBlock(<<1, 2, 3, 3>>,
                            <<[spans |-> <<Span(<<"y">>, 1200, "Arial", 0)>>]>>)>>,
     tables |-> [raises |-> TRUE],
     images |-> <<[xref |-> 7, extracted |-> [ext |-> "png", image |-> <<137, 80>>],
                   rects |-> [found |-> <<<<1, 0, 2, 1>>>>]]>>]

\* images: one that extracts, one whose extract_image raises, one whose
\* get_image_rects raises, one whose extract_image returns nothing, and one
\* without a placement rectangle
ImagePage ==
    [blocks |-> <<>>,
     tables |-> [found |-> <<>>],
     images |-> <<[xref |-> 3, extracted |-> [ext |-> "png", image |-> <<137>>],
                   rects |-> [found |-> <<<<0, 3, 1, 4>>, <<2, 2, 3, 3>>>>]],
                  [xref |-> 4, extracted |-> [raises |-> TRUE],
                   rects |-> [found |-> <<>>]],
                  [xref |-> 5, extracted |-> [ext |-> "png", image |-> <<1, 2>>],
                   rects |-> [raises |-> TRUE]],
                  [xref |-> 6, extracted |-> [empty |-> TRUE],
                   rects |-> [found |-> <<>>]],
                  [xref |-> 8, extracted |-> [ext |-> "jpeg", image |-> <<255, 216, 255>>],
                   rects |-> [found |-> <<>>]]>>]

PageKinds == {BlankPage, TextPage, TablePage, BrokenTablePage, ImagePage}

\* an undecodable file, or a document of up to MaxDocPages pages
Documents ==
    {[corrupt |-> TRUE]}
    \cup {[pages |-> ps] : ps \in UNION {[1..n -> PageKinds] : n \in 0..MaxDocPages}}

\* the "pages" option: absent, well-formed (in and out of bounds), and with a
\* bad part in front or at the end
PageRangeOptions ==
    {<<>>, <<"1">>, <<"2", ",", "1">>, <<"0", "-", "3">>, <<"3">>,
     <<"2", "-", "1">>, <<"1", ",", "2", "-", "1">>, <<"x", ",", "1">>,
     <<"1", ",", "x">>}

\* the options dicts: every key present or absent
OptionDicts ==
    {pages @@ imgs @@ fmt :
        pages \in {<<>>} \cup {[pages |-> str] : str \in PageRangeOptions \ {<<>>}},
        imgs \in {<<>>, [include_images |-> <<"t", "R", "u", "E">>]},
        fmt \in {<<>>, [output_format |-> "html"]}}

Requests ==
    {[data |-> doc, operation |-> "extract", options |-> opts] :
        doc \in Documents, opts \in OptionDicts}

InitProcess ==
    /\ \E req \in Requests : request = <<req>>
    /\ frame = <<NewFrame>>
    /\ config = NoConfig
    /\ first_in_set = <<>>
    /\ paragraphs = <<>>
    /\ tables = <<>>
    /\ images = <<>>
    /\ total_pages = 0
    /\ title_threshold = DefaultTitleThreshold
    /\ heading_threshold = DefaultHeadingThreshold
    /\ result = NoResult
    /\ html = <<>>
    /\ pc = "start"

SpecProcess == InitProcess /\ [][NextProcess]_vars

-----------------------------------------------------------------------------
(* Inputs of process of both backends: documents with pages the engine       *)
(* cannot read                                                               *)

\* a page with its text as get_text("text") gives it
WithText(page, text) == page @@ [text |-> text]

\* a page on which get_text raises an exception of the given class
UnreadablePage(class) == WithText(BlankPage, <<>>) @@ [unreadable |-> class]

\* one text of a 12 pt span in Arial and a 12.1 pt span in Courier: two
\* fonts used equally often, and a mean size halfway between two tenths
MixedPage ==
    [blocks |-> <<TextBlock(<<0, 0, 4, 1>>,
                            <<[spans |-> <<Span(<<"a">>, 1200, "Arial", 0),
                                           Span(<<"b">>, 1210, "Courier", 0)>>]>>)>>,
     tables |-> [found |-> <<>>],
     images |-> <<>>]

\* the lists of font names, in the blocks of these pages, that hold several
\* most used names
TiedLists(pages) ==
    {names \in UNION {{FontNames(page.blocks[i]) : i \in 1..Len(page.blocks)} :
                         page \in pages} :
        Cardinality(MostUsed(names)) > 1}

\* what the iteration order of sets can be in a process that reads these pages
FirstInSet(pages) ==
    {first \in [TiedLists(pages) -> UNION {MostUsed(names) : names \in TiedLists(pages)}] :
        \A names \in TiedLists(pages) : first[names] \in MostUsed(names)}

BackendPages ==
    {WithText(TextPage, <<"T", "\n", " ", "a", " ", "\n", "b", " ", "\n">>),
     WithText(MixedPage, <<"a", "b", "\n">>),
     WithText(TablePage, <<"h", "h", "\n", "x", "\n", " ", "\n">>),
     UnreadablePage(Mro("RuntimeError")),
     UnreadablePage(Mro("ValueError"))}

BackendDocuments ==
    {[corrupt |-> TRUE]}
    \cup {[pages |-> ps] : ps \in UNION {[1..n -> BackendPages] : n \in 0..MaxDocPages}}

\* options of extract (a page range, well-formed or not) and of
\* detect_text_layer (a threshold, an integer or not)
BackendOptions ==
    {<<>>,
     [output_format |-> "html"],
     [pages |-> <<"1">>],
     [pages |-> <<"0", "-", "3">>],
     [pages |-> <<"2", "-", "1">>],
     [include_images |-> <<"y", "e", "s">>],
     [char_threshold |-> <<"2">>],
     [char_threshold |-> <<" ", "-", "1">>],
     [char_threshold |-> <<"1", "_", "0">>],
     [char_threshold |-> <<"", "2">>],
     [char_threshold |-> <<"x">>]}

BackendRequests ==
    {[data |-> doc, operation |-> op, options |-> opts] :
        doc \in BackendDocuments,
        op \in SupportedOperations \cup DetectOperations,
        opts \in BackendOptions}

\* process of one of the two backends is called
InitBackends ==
    /\ \E req \in BackendRequests : request = <<req>>
    /\ \E f \in {NewFrame, NewDetectFrame} : frame = <<f>>
    /\ config = NoConfig
    /\ first_in_set \in FirstInSet(BackendPages)
    /\ paragraphs = <<>>
    /\ tables = <<>>
    /\ images = <<>>
    /\ total_pages = 0
    /\ title_threshold = DefaultTitleThreshold
    /\ heading_threshold = DefaultHeadingThreshold
    /\ result = NoResult
    /\ html = <<>>
    /\ pc = "start"

SpecBackends == InitBackends /\ [][NextBackends]_vars

-----------------------------------------------------------------------------
(* Inputs of process, for invocations in parallel worker threads *)

MaxInvocations == 2

\* requests that take every path of process: two documents of two pages,
\* an undecodable file, and a bad page range
ConcurrentRequests ==
    {[data |-> [pages |-> <<TextPage, TablePage>>], operation |-> "extract",
      options |-> [include_images |-> <<"T", "r", "u", "e">>,
                   output_format |-> "html"]],
     [data |-> [pages |-> <<ImagePage, TextPage>>], operation |-> "extract",
      options |-> [pages |-> <<"2", ",", "1">>,
                   include_images |-> <<"T", "R", "U", "E">>]],
     [data |-> [corrupt |-> TRUE], operation |-> "extract", options |-> <<>>],
     [data |-> [pages |-> <<TextPage>>], operation |-> "extract",
      options |-> [pages |-> <<"2", "-", "1">>]]}

\* handlers of ProcessDocument, in threads of the server's pool, have each
\* found the backend and are about to call its process with the options of
\* their request; nothing has called get_config() yet
InitConcurrent ==
    /\ request \in [1..MaxInvocations -> ConcurrentRequests]
    /\ frame = [t \in 1..MaxInvocations |-> NewFrame]
    /\ config = NoConfig
    /\ first_in_set = <<>>
    /\ paragraphs = <<>>
    /\ tables = <<>>
    /\ images = <<>>
    /\ total_pages = 0
    /\ title_threshold = DefaultTitleThreshold
    /\ heading_threshold = DefaultHeadingThreshold
    /\ result = NoResult
    /\ html = <<>>
    /\ pc = "start"

\* the threads run process in any interleaving of its steps
SpecConcurrent == InitConcurrent /\ [][NextProcess]_vars

-----------------------------------------------------------------------------
(* Properties of assemble *)

Assembled == pc = "assembled"

Elems(s) == {s[i] : i \in 1..Len(s)}

\* raw page numbers agree (pages are 1-indexed, 0 stands for "no page_number")
SameRawPage(p, t) == Get(p, "page_number", 0) = Get(t, "page_number", 0)

\* two boxes share a region of positive width and positive height
PositiveIntersection(a, b) ==
    /\ a.x_min < b.x_max /\ b.x_min < a.x_max
    /\ a.y_min < b.y_max /\ b.y_min < a.y_max

\* some table of the input lies on the paragraph's page and covers part of it
CoveredByTable(p) ==
    /\ "bounding_box" \in DOMAIN p
    /\ \E t \in Elems(tables) :
         /\ "bounding_box" \in DOMAIN t
         /\ SameRawPage(p, t)
         /\ PositiveIntersection(p.bounding_box, t.bounding_box)

\* the boxes touch (share a boundary point) without sharing a region
Touching(a, b) ==
    /\ ~PositiveIntersection(a, b)
    /\ a.x_min <= b.x_max /\ b.x_min <= a.x_max
    /\ a.y_min <= b.y_max /\ b.y_min <= a.y_max

BlockCount(type, id) ==
    Cardinality({i \in 1..Len(result.content_blocks) :
                    /\ result.content_blocks[i].type = type
                    /\ result.content_blocks[i].content_id = id})

\* C1: content_blocks holds exactly one block per paragraph that survives the
\* table-overlap filter, one per table and one per image, none for a
\* filtered-out paragraph, and nothing else.
C1_OneBlockPerSurvivor ==
    Assembled =>
        /\ \A p \in Elems(paragraphs) :
             BlockCount("paragraph", p.id) = IF CoveredByTable(p) THEN 0 ELSE 1
        /\ \A t \in Elems(tables) : BlockCount("table", t.id) = 1
        /\ \A g \in Elems(images) : BlockCount("image", g.id) = 1
        /\ Len(result.content_blocks) =
             Cardinality({p \in Elems(paragraphs) : ~CoveredByTable(p)})
             + Len(tables) + Len(images)

C1_Witness ==
    /\ Assembled
    /\ \E p \in Elems(paragraphs) : CoveredByTable(p)
    /\ \E p \in Elems(paragraphs) : ~CoveredByTable(p)
    /\ Len(tables) >= 1
    /\ Len(result.content_blocks) = 2

\* C2: content_blocks is sorted by (page, y_position), lexicographically.
C2_Sorted ==
    Assembled =>
        \A i, j \in 1..Len(result.content_blocks) :
            i < j =>
                LET a == result.content_blocks[i]
                    b == result.content_blocks[j]
                IN  \/ a.page < b.page
                    \/ a.page = b.page /\ a.y_position <= b.y_position

\* the input supplied a later-page element first and, on one page, a lower
\* element before a higher one
C2_Witness ==
    /\ Assembled
    /\ Len(paragraphs) = 3 /\ Len(result.content_blocks) = 3
    /\ \A i \in 1..3 : "page_number" \in DOMAIN paragraphs[i]
                       /\ "bounding_box" \in DOMAIN paragraphs[i]
    /\ paragraphs[1].page_number = 2
    /\ paragraphs[2].page_number = 1 /\ paragraphs[3].page_number = 1
    /\ paragraphs[2].bounding_box.y_min > paragraphs[3].bounding_box.y_min
    /\ result.content_blocks[1].content_id = paragraphs[3].id
    /\ result.content_blocks[3].content_id = paragraphs[1].id

TypeRank(type) == CASE type = "paragraph" -> 1 [] type = "table" -> 2
                    [] type = "image" -> 3

\* position in its input list of the element a block points to
InputIndex(b) ==
    LET src == CASE b.type = "paragraph" -> paragraphs [] b.type = "table" -> tables
                 [] b.type = "image" -> images
    IN  CHOOSE i \in 1..Len(src) : src[i].id = b.content_id

\* C3: blocks with equal (page, y_position) stand in append order: paragraphs
\* before tables before images, and within one type in input-list order.
C3_TiesInAppendOrder ==
    Assembled =>
        \A i, j \in 1..Len(result.content_blocks) :
            LET a == result.content_blocks[i]
                b == result.content_blocks[j]
            IN  (i < j /\ a.page = b.page /\ a.y_position = b.y_position) =>
                    \/ TypeRank(a.type) < TypeRank(b.type)
                    \/ a.type = b.type /\ InputIndex(a) < InputIndex(b)

\* a paragraph, a table and an image with one key, and two paragraphs with one key
C3_Witness ==
    /\ Assembled
    /\ Len(result.content_blocks) = 3
    /\ \A i \in 1..3 : result.content_blocks[i].page = result.content_blocks[1].page
                       /\ result.content_blocks[i].y_position
                            = result.content_blocks[1].y_position
    /\ \/ <<result.content_blocks[1].type, result.content_blocks[2].type,
            result.content_blocks[3].type>> = <<"paragraph", "table", "image">>
       \/ <<result.content_blocks[1].type, result.content_blocks[2].type,
            result.content_blocks[3].type>> = <<"paragraph", "paragraph", "image">>

\* C4: a paragraph is dropped iff a table with the same page number has a
\* bounding box that shares a region of positive width and height with the
\* paragraph's; touching boxes and tables of another page drop nothing.
C4_DroppedIffCovered ==
    Assembled =>
        \A p \in Elems(paragraphs) :
            (p \notin Elems(result.paragraphs)) <=> CoveredByTable(p)

\* one paragraph dropped, one kept although it touches a table of its page,
\* or kept although a table of another page covers it
C4_Witness ==
    /\ Assembled
    /\ \E p \in Elems(paragraphs) : p \notin Elems(result.paragraphs)
    /\ \E p \in Elems(result.paragraphs), t \in Elems(tables) :
         /\ "bounding_box" \in DOMAIN p /\ "bounding_box" \in DOMAIN t
         /\ "page_number" \in DOMAIN p /\ "page_number" \in DOMAIN t
         /\ \/ p.page_number = t.page_number
               /\ Touching(p.bounding_box, t.bounding_box)
            \/ p.page_number # t.page_number
               /\ PositiveIntersection(p.bounding_box, t.bounding_box)

RECURSIVE IsSubsequence(_, _)
IsSubsequence(s, t) ==
    IF s = <<>> THEN TRUE
    ELSE IF t = <<>> THEN FALSE
    ELSE IF Head(s) = Head(t) THEN IsSubsequence(Tail(s), Tail(t))
    ELSE IsSubsequence(s, Tail(t))

\* C5: the result's tables and images are the input lists, and its paragraphs
\* are a subsequence of the input paragraphs.
C5_OnlyParagraphsFiltered ==
    Assembled =>
        /\ result.tables = tables
        /\ result.images = images
        /\ IsSubsequence(result.paragraphs, paragraphs)

\* the first of two paragraphs was dropped, the table that covers it was kept
C5_Witness ==
    /\ Assembled
    /\ Len(paragraphs) = 2 /\ Len(result.tables) = 1
    /\ result.paragraphs = <<paragraphs[2]>>

\* two paragraphs pass the filter next to a table that lies below them
C5_WitnessKept ==
    /\ Assembled
    /\ Len(result.paragraphs) = 2 /\ Len(result.tables) = 1
    /\ result.content_blocks[3].type = "table"

C5_WitnessImages ==
    /\ Assembled
    /\ Len(result.images) = 2 /\ Len(result.tables) = 1
    /\ result.content_blocks[1].type = "image"

\* the retained paragraphs in input order
Retained == LET Keep(p) == ~CoveredByTable(p) IN SelectSeq(paragraphs, Keep)

\* s is the given lines separated by single newlines
RECURSIVE IsJoinOf(_, _)
IsJoinOf(s, lines) ==
    IF lines = <<>> THEN s = <<>>
    ELSE LET n == Len(lines)
             last == lines[n]
         IN  IF n = 1 THEN s = last
             ELSE /\ Len(s) >= Len(last) + 1
                  /\ SubSeq(s, Len(s) - Len(last) + 1, Len(s)) = last
                  /\ s[Len(s) - Len(last)] = "\n"
                  /\ IsJoinOf(SubSeq(s, 1, Len(s) - Len(last) - 1),
                              SubSeq(lines, 1, n - 1))

\* C6: full_text is the newline join of the retained paragraphs' content in
\* input order, and empty when none is retained.
C6_FullTextInInputOrder ==
    Assembled =>
        /\ IsJoinOf(result.full_text,
                    [i \in 1..Len(Retained) |-> Retained[i].content])
        /\ (Retained = <<>> => result.full_text = <<>>)

\* two paragraphs retained, next to a table, whose blocks stand in the
\* opposite order
C6_Witness ==
    /\ Assembled
    /\ Len(Retained) = 2 /\ Len(tables) = 1
    /\ LET first == CHOOSE i \in 1..Len(result.content_blocks) :
                      result.content_blocks[i].content_id = Retained[1].id
                      /\ result.content_blocks[i].type = "paragraph"
           second == CHOOSE i \in 1..Len(result.content_blocks) :
                      result.content_blocks[i].content_id = Retained[2].id
                      /\ result.content_blocks[i].type = "paragraph"
       IN  second < first
    /\ result.full_text = Retained[1].content \o <<"\n">> \o Retained[2].content

\* the first of two paragraphs is filtered out and its text is not in full_text
C6_WitnessDropped ==
    /\ Assembled
    /\ Len(paragraphs) = 2 /\ Retained = <<paragraphs[2]>>
    /\ result.full_text = paragraphs[2].content

C6_WitnessEmpty ==
    /\ Assembled
    /\ Len(paragraphs) >= 1 /\ Retained = <<>> /\ result.full_text = <<>>

\* C7: the result's pages is the total_pages argument.
C7_PagesIsArgument == Assembled => result.pages = total_pages

\* total_pages 0 with an element on page 2, and total_pages 2 with nothing
C7_Witness ==
    /\ Assembled
    /\ result.pages = 0
    /\ \E p \in Elems(paragraphs) : Get(p, "page_number", 1) = 2
    /\ Len(tables) = 1 /\ Len(images) = 1

C7_WitnessEmpty ==
    /\ Assembled
    /\ result.pages = 2
    /\ paragraphs = <<>> /\ tables = <<>> /\ images = <<>>

-----------------------------------------------------------------------------
(* Properties of classify *)

Classified == pc \in {"classified", "reclassified"}

\* C8: after classify every role follows the first matching rule: the title
\* threshold, then 1.5 times the body size with bold (title), then the heading
\* threshold, then bold above 1.1 times the body size (sectionHeading), else none.
\* The products are those of the floats: 8.8 * 1.5 lies above 13.2.
C8_RoleByPriority ==
    Classified =>
        LET body == DetectBodyFontSize(paragraphs)
        IN  \A p \in Elems(paragraphs) :
                LET size == FontSize(p)
                    bold == FontBold(p)
                    IsTitle == \/ size >= title_threshold
                               \/ bold /\ AtLeastTimes(size, body, 3, 2)
                    IsHeading == \/ size >= heading_threshold
                                 \/ bold /\ MoreThanTimes(size, body, 11, 10)
                IN  /\ p.role = "title" <=> IsTitle
                    /\ p.role = "sectionHeading" <=> (~IsTitle /\ IsHeading)
                    /\ p.role = "None" <=> (~IsTitle /\ ~IsHeading)
                    /\ size >= title_threshold => p.role = "title"

\* a bold paragraph below the title threshold is title by the relative rule
\* although it also meets the heading threshold, and a plain paragraph is title
\* by the title threshold although the heading threshold lies above its size
C8_Witness ==
    /\ Classified
    /\ \E p \in Elems(paragraphs) :
         /\ p.role = "title" /\ FontBold(p)
         /\ FontSize(p) < title_threshold /\ FontSize(p) >= heading_threshold
    /\ \E p \in Elems(paragraphs) :
         /\ p.role = "sectionHeading" /\ FontSize(p) < heading_threshold
    /\ \E p \in Elems(paragraphs) : p.role = "None"

\* a bold paragraph of 13.2 points in a text of 8.8 points: the product
\* 8.8 * 1.5 is no float that 13.2 reaches, and the paragraph is a heading
\* by the rule of 1.1 times
C8_WitnessFloatProduct ==
    /\ Classified
    /\ DetectBodyFontSize(paragraphs) = 880
    /\ \E p \in Elems(paragraphs) :
         /\ FontSize(p) = 1320 /\ FontBold(p)
         /\ FontSize(p) < title_threshold /\ FontSize(p) < heading_threshold
         /\ p.role = "sectionHeading"

C8_WitnessTitleBelowHeading ==
    /\ Classified
    /\ \E p \in Elems(paragraphs) :
         /\ p.role = "title" /\ ~FontBold(p)
         /\ FontSize(p) < heading_threshold

\* C9: classifying a classified list again with the same thresholds changes
\* no role (and nothing else).
C9_Idempotent ==
    [][(pc = "classified" /\ pc' = "reclassified") => paragraphs' = paragraphs]_vars

\* the list was classified twice and holds a title, a heading and body text
C9_Witness ==
    /\ pc = "reclassified"
    /\ \E p \in Elems(paragraphs) : p.role = "title"
    /\ \E p \in Elems(paragraphs) : p.role = "sectionHeading"
    /\ \E p \in Elems(paragraphs) : p.role = "None"

-----------------------------------------------------------------------------
(* Properties of convert *)

Converted == pc = "converted"

Reverse(s) == [i \in 1..Len(s) |-> s[Len(s) + 1 - i]]

\* the element of a collection (with unique ids) that a block points to
Resolves(coll, id) == \E e \in Elems(coll) : e.id = id
Target(coll, id) == CHOOSE e \in Elems(coll) : e.id = id

\* what the block is to contribute to the output
Rendering(b) ==
    CASE b.type = "paragraph" /\ Resolves(result.paragraphs, b.content_id) ->
           LET para == Target(result.paragraphs, b.content_id)
               tag == CASE para.role = "title" -> "h1"
                        [] para.role = "sectionHeading" -> "h2"
                        [] OTHER -> "p"
           IN  <<"<" \o tag \o ">">> \o EscapeHtml(para.content)
               \o <<"</" \o tag \o ">">>
      [] b.type = "table" /\ Resolves(result.tables, b.content_id) ->
           TableToHtml(Target(result.tables, b.content_id))
      [] b.type = "image" /\ Resolves(result.images, b.content_id)
           /\ Get(Target(result.images, b.content_id), "data", "") # "" ->
           LET img == Target(result.images, b.content_id)
           IN  <<"<img src=\"data:" \o Get(img, "mime_type", "image/png")
                  \o ";base64," \o img.data \o "\" />">>
      [] OTHER -> <<>>

\* C10: the output is the opening skeleton, then the rendering of every
\* content block in content_blocks order, each exactly once, then the closing
\* skeleton; reordering the collections changes nothing.
C10_RenderedInBlockOrder ==
    Converted =>
        LET blocks == result.content_blocks
            renderings == [i \in 1..Len(blocks) |-> Rendering(blocks[i])]
        IN  /\ html = <<HtmlOpen>> \o ConcatAll(renderings) \o <<HtmlClose>>
            /\ ConvertHtml([result EXCEPT !.paragraphs = Reverse(@),
                                          !.tables = Reverse(@),
                                          !.images = Reverse(@)]) = html

\* the collection lists para-0 (a title) before para-1 (a heading), the blocks
\* name para-1 first and para-0 last, and the output follows the blocks
C10_Witness ==
    /\ Converted
    /\ Len(result.paragraphs) = 2
    /\ result.paragraphs[1].id = "para-0" /\ result.paragraphs[1].role = "title"
    /\ result.paragraphs[2].id = "para-1"
    /\ result.paragraphs[2].role = "sectionHeading"
    /\ Len(result.content_blocks) = 2
    /\ result.content_blocks[1].content_id = "para-1"
    /\ result.content_blocks[2].content_id = "para-0"
    /\ html[2] = "<h2>"
    /\ html[Len(html) - 1] = "</h1>"

\* a table block in front of a body paragraph: the table comes out first
C10_WitnessTable ==
    /\ Converted
    /\ Len(result.content_blocks) = 2
    /\ result.content_blocks[1].type = "table"
    /\ result.content_blocks[2].type = "paragraph"
    /\ html = <<HtmlOpen, "<table border=\"1\" id=\"table-0\"><tbody>",
                "</tbody></table>", "<p>", "a", "</p>", HtmlClose>>

\* a body paragraph is rendered as p, twice when two blocks point to it
C10_WitnessBody ==
    /\ Converted
    /\ Len(result.content_blocks) = 2
    /\ result.content_blocks[1] = result.content_blocks[2]
    /\ html = <<HtmlOpen, "<p>", "a", "</p>", "<p>", "a", "</p>", HtmlClose>>

\* the collection a block of this type is looked up in
CollectionOf(type) ==
    CASE type = "paragraph" -> result.paragraphs
      [] type = "table" -> result.tables
      [] type = "image" -> result.images

\* the block's id is not in the collection of its type
Dangling(b) == ~Resolves(CollectionOf(b.type), b.content_id)

\* an image block whose image has no data key or empty data
ImageWithoutData(b) ==
    /\ b.type = "image"
    /\ Resolves(result.images, b.content_id)
    /\ LET img == Target(result.images, b.content_id)
       IN  "data" \notin DOMAIN img \/ img.data = ""

Unrenderable(b) == Dangling(b) \/ ImageWithoutData(b)

\* the content blocks without the unrenderable ones
Renderable ==
    LET Ok(b) == ~Unrenderable(b) IN SelectSeq(result.content_blocks, Ok)

\* C11: a block whose content_id is not in the collection of its type, and an
\* image block whose image has absent or empty data, contribute nothing to the
\* output: the output is the skeleton around the renderings of the other
\* blocks, each of which is not empty, and it is the output of the same model
\* without the unrenderable blocks.
C11_UnrenderableSkipped ==
    Converted =>
        /\ html = <<HtmlOpen>>
                  \o ConcatAll([i \in 1..Len(Renderable) |-> Rendering(Renderable[i])])
                  \o <<HtmlClose>>
        /\ \A i \in 1..Len(Renderable) : Rendering(Renderable[i]) # <<>>
        /\ html = ConvertHtml([result EXCEPT !.content_blocks = Renderable])

\* a dangling paragraph block in front of a rendered paragraph
C11_Witness ==
    /\ Converted
    /\ Len(result.content_blocks) = 2
    /\ result.content_blocks[1].type = "paragraph"
    /\ Dangling(result.content_blocks[1])
    /\ result.content_blocks[2].type = "paragraph"
    /\ ~Unrenderable(result.content_blocks[2])
    /\ html = <<HtmlOpen, "<p>", "a", "</p>", HtmlClose>>

\* an image with empty data in front of a rendered table
C11_WitnessEmptyData ==
    /\ Converted
    /\ Len(result.content_blocks) = 2
    /\ ImageWithoutData(result.content_blocks[1])
    /\ "data" \in DOMAIN result.images[1]
    /\ result.content_blocks[2].type = "table"
    /\ ~Unrenderable(result.content_blocks[2])
    /\ html = <<HtmlOpen, "<table border=\"1\" id=\"table-0\"><tbody>",
                "</tbody></table>", HtmlClose>>

\* an image without a data key and a dangling table: only the skeleton
C11_WitnessNoData ==
    /\ Converted
    /\ Len(result.content_blocks) = 2
    /\ ImageWithoutData(result.content_blocks[1])
    /\ "data" \notin DOMAIN result.images[1]
    /\ result.content_blocks[2].type = "table"
    /\ Dangling(result.content_blocks[2])
    /\ html = <<HtmlOpen, HtmlClose>>

-----------------------------------------------------------------------------
(* Properties of escaping *)

\* the entity that stands for a character
EntityOf(c) ==
    CASE c = "&" -> <<"&", "a", "m", "p", ";">>
      [] c = "<" -> <<"&", "l", "t", ";">>
      [] c = ">" -> <<"&", "g", "t", ";">>
      [] c = "\"" -> <<"&", "q", "u", "o", "t", ";">>
      [] c = "'" -> <<"&", "#", "0", "3", "9", ";">>
      [] OTHER -> <<c>>

SpecialChars == {"&", "<", ">", "\"", "'"}

IsPrefix(pre, s) == Len(pre) <= Len(s) /\ SubSeq(s, 1, Len(pre)) = pre

\* one pass of entity decoding, left to right
RECURSIVE Unescape(_)
Unescape(s) ==
    IF s = <<>> THEN <<>>
    ELSE LET hits == {c \in SpecialChars : IsPrefix(EntityOf(c), s)}
         IN  IF hits = {} THEN <<Head(s)>> \o Unescape(Tail(s))
             ELSE LET c == CHOOSE x \in hits : TRUE
                  IN  <<c>> \o Unescape(SubSeq(s, Len(EntityOf(c)) + 1, Len(s)))

\* the content that was handed to convert, and what stands for it in the output
ContentIn ==
    IF result.paragraphs # <<>> THEN result.paragraphs[1].content
    ELSE result.tables[1].cells[1].content

ContentOut ==
    IF result.paragraphs # <<>> THEN SubSeq(html, 3, Len(html) - 2)
    ELSE SubSeq(html, 5, Len(html) - 4)

\* C12: in the output every character of a paragraph or cell content stands
\* as itself, or as its one entity when it is one of & < > " ' ; nothing else
\* is added, so no ampersand of an entity is escaped again, and decoding the
\* entities once gives the content back.
C12_EscapedOnce ==
    Converted =>
        /\ ContentOut = ConcatAll([i \in 1..Len(ContentIn) |-> EntityOf(ContentIn[i])])
        /\ Unescape(ContentOut) = ContentIn
        /\ Cardinality({i \in 1..Len(ContentOut) : ContentOut[i] = "&"})
             = Cardinality({i \in 1..Len(ContentIn) : ContentIn[i] \in SpecialChars})
        /\ IF result.paragraphs # <<>>
           THEN html[2] = "<p>" /\ html[Len(html) - 1] = "</p>"
           ELSE html[4] = "<td>" /\ html[Len(html) - 3] = "</td>"

\* a paragraph with an ampersand behind a less-than sign
C12_Witness ==
    /\ Converted
    /\ result.paragraphs # <<>>
    /\ ContentIn = <<"<", "&", "'", "\"">>
    /\ HtmlString(html) = HtmlOpen \o "<p>&lt;&amp;&#039;&quot;</p>" \o HtmlClose

\* a cell whose content is itself the text of an entity
C12_WitnessEntityText ==
    /\ Converted
    /\ result.paragraphs = <<>>
    /\ ContentIn = <<"&", "l", "t", ";">>
    /\ ContentOut = <<"&", "a", "m", "p", ";", "l", "t", ";">>

-----------------------------------------------------------------------------
(* Properties of table rendering *)

\* the cell of the table at a grid position (the last one, if several)
CellsAt(table, r, c) ==
    {i \in 1..Len(table.cells) :
        table.cells[i].row_index = r /\ table.cells[i].column_index = c}

GridPiece(table, r, c) ==
    LET at == CellsAt(table, r, c)
    IN  IF at = {} THEN <<"<td></td>">>
        ELSE CellToHtml(table.cells[CHOOSE i \in at : \A j \in at : j <= i])

\* the table as a grid of table.rows rows and table.columns columns
GridOf(table) ==
    <<"<table border=\"1\" id=\"" \o table.id \o "\"><tbody>">>
    \o ConcatAll([r \in 1..table.rows |->
                    <<"<tr>">>
                    \o ConcatAll([c \in 1..table.columns |->
                                     GridPiece(table, r - 1, c - 1)])
                    \o <<"</tr>">>])
    \o <<"</tbody></table>">>

RenderingAsGrid(b) ==
    IF b.type = "table" /\ Resolves(result.tables, b.content_id)
    THEN GridOf(Target(result.tables, b.content_id))
    ELSE Rendering(b)

\* C13: a rendered table has one <tr> per row index from 0 to rows-1, also
\* when some or all rows have no cell; each cell stands at its (row_index,
\* column_index) and every grid position without a cell is an empty <td></td>.
C13_OneTrPerRow ==
    Converted =>
        LET blocks == result.content_blocks
        IN  html = <<HtmlOpen>>
                   \o ConcatAll([i \in 1..Len(blocks) |-> RenderingAsGrid(blocks[i])])
                   \o <<HtmlClose>>

-----------------------------------------------------------------------------
(* Properties of parse_page_range *)

\* the page-range string of the invocation, and its parts between the commas
RangeString == request[1].options.pages

PartBounds(str) == {0, Len(str) + 1} \cup {i \in 1..Len(str) : str[i] = ","}

PartsOf(str) ==
    {SubSeq(str, i + 1, j - 1) :
        <<i, j>> \in {b \in PartBounds(str) \X PartBounds(str) :
                         /\ b[1] < b[2]
                         /\ \A k \in PartBounds(str) : ~(b[1] < k /\ k < b[2])}}

\* a number of a page range, which is stripped and then read by int(): blanks,
\* digits in groups that single underscores part, blanks
IsNumber(text) ==
    \E a, b \in 1..Len(text) :
        /\ a <= b
        /\ IsDigit(text[a]) /\ IsDigit(text[b])
        /\ \A k \in 1..Len(text) :
             IF a <= k /\ k <= b
             THEN IsDigit(text[k]) \/ (text[k] = "_" /\ text[k + 1] # "_")
             ELSE text[k] \in Whitespace

NumberOf(text) ==
    LET IsDigitAt(c) == IsDigit(c) IN Decimal(SelectSeq(text, IsDigitAt))

\* the part is "start-end": a number, a hyphen, a number
IsRange(part) ==
    \E h \in 1..Len(part) :
        /\ part[h] = "-"
        /\ IsNumber(SubSeq(part, 1, h - 1))
        /\ IsNumber(SubSeq(part, h + 1, Len(part)))

RangeStart(part) ==
    NumberOf(SubSeq(part, 1, CHOOSE h \in 1..Len(part) : part[h] = "-"))
RangeEnd(part) ==
    NumberOf(SubSeq(part, CHOOSE h \in 1..Len(part) : part[h] = "-", Len(part)))

WellFormedPart(part) ==
    IsNumber(part) \/ (IsRange(part) /\ RangeStart(part) <= RangeEnd(part))

\* the page numbers a well-formed part names
NamedBy(part) ==
    IF IsNumber(part) THEN {NumberOf(part)}
    ELSE RangeStart(part)..RangeEnd(part)

WellFormed(str) == \A part \in PartsOf(str) : WellFormedPart(part)

Named(str) == UNION {NamedBy(part) : part \in PartsOf(str)}

PagesSelected == Len(frame) = 1 /\ frame[1].pc \in {"pages", "close"}

\* C14: for a string of comma-separated singles and inclusive start-end
\* ranges parse_page_range returns the page numbers these name, as a strictly
\* increasing list without duplicates, also when entries repeat or ranges
\* overlap; it returns for no other string.
C14_SortedUnique ==
    (PagesSelected /\ RangeString # <<>>) =>
        LET nums == frame[1].page_numbers
        IN  /\ WellFormed(RangeString) <=> frame[1].exception = NoException
            /\ WellFormed(RangeString) =>
                 /\ \A i, j \in 1..Len(nums) : i < j => nums[i] < nums[j]
                 /\ {nums[i] : i \in 1..Len(nums)} = Named(RangeString)

\* "1,3,5-7" gives 1, 3, 5, 6, 7
C14_Witness ==
    /\ PagesSelected
    /\ RangeString = <<"1", ",", "3", ",", "5", "-", "7">>
    /\ frame[1].page_numbers = <<1, 3, 5, 6, 7>>

\* a repeated single inside an overlapping range, given out of order
C14_WitnessOverlap ==
    /\ PagesSelected
    /\ RangeString = <<"3", ",", "1", "-", "3", ",", " ", "2", " ">>
    /\ frame[1].page_numbers = <<1, 2, 3>>

-----------------------------------------------------------------------------
(* Properties of process, for one invocation *)

TheFrame == frame[1]
TheRequest == request[1]

OneInvocation == Len(frame) = 1

Decodable == "pages" \in DOMAIN TheRequest.data

RequestedRange == Get(TheRequest.options, "pages", <<>>)

\* a page range is given and some part of it is neither a number nor a range
\* with start <= end
BadRange == RequestedRange # <<>> /\ ~WellFormed(RequestedRange)

NothingExtracted(f) ==
    /\ f.all_paragraphs = <<>> /\ f.all_tables = <<>> /\ f.all_images = <<>>
    /\ f.para_counter = 0 /\ f.table_counter = 0 /\ f.img_counter = 0
    /\ f.pages_processed = 0

\* C15: with a malformed page range, or one that holds a range with
\* start > end, the request never reaches the extraction of a page: nothing
\* is extracted, no result is built, nothing is returned, and the invocation
\* ends by raising a ValueError, wherever the bad part stands.
C15_BadRangeRejected ==
    (OneInvocation /\ BadRange) =>
        /\ TheFrame.pc \in {"start", "select", "close", "raised"}
        /\ NothingExtracted(TheFrame)
        /\ TheFrame.result = NoResult
        /\ TheFrame.returned = NotReturned
        /\ TheFrame.pc = "close" => Raised(TheFrame.exception)
        /\ TheFrame.pc = "raised" => /\ Raised(TheFrame.exception)
                                     /\ TheFrame.exception.raised = "ValueError"

\* "1,2-1" on a document whose first page has text: the bad part is the last
C15_Witness ==
    /\ OneInvocation
    /\ RequestedRange = <<"1", ",", "2", "-", "1">>
    /\ Decodable /\ Len(TheRequest.data.pages) = 2
    /\ TheRequest.data.pages[1] = TextPage
    /\ TheFrame.pc = "raised"
    /\ TheFrame.exception = ValueError("Invalid page range (start > end)")
    /\ TheFrame.doc = "closed"

\* "x,1": the bad part is the first
C15_WitnessMalformed ==
    /\ OneInvocation
    /\ RequestedRange = <<"x", ",", "1">>
    /\ Decodable /\ Len(TheRequest.data.pages) = 1
    /\ TheRequest.data.pages[1] = TablePage
    /\ TheFrame.pc = "raised"
    /\ TheFrame.exception = ValueError("invalid literal for int() with base 10")

\* the page number lies within the document
InBounds(n) == Decodable /\ 1 <= n /\ n <= Len(TheRequest.data.pages)

\* a text block with a character that is not whitespace
HasVisibleText(block) ==
    /\ block.type = 0
    /\ \E l \in 1..Len(block.lines) :
         \E k \in 1..Len(block.lines[l].spans) :
           \E c \in 1..Len(block.lines[l].spans[k].text) :
               block.lines[l].spans[k].text[c] \notin Whitespace

VisibleBlocks(page) ==
    {i \in 1..Len(page.blocks) : HasVisibleText(page.blocks[i])}

\* what a list gained in a step
Gained(before, after) == SubSeq(after, Len(before) + 1, Len(after))

PageNumbersOf(elems) == {elems[i].page_number : i \in 1..Len(elems)}

\* the pages the request asks for: those of the range, or all of the document
RequestedPages ==
    IF RequestedRange = <<>> THEN 1..Len(TheRequest.data.pages)
    ELSE Named(RequestedRange)

\* a pass of the loop over the pages: the page numbers come in increasing
\* order; a page outside the document changes nothing but the position; a
\* page inside it is counted and only elements of that page are appended,
\* one paragraph per text block that has visible text
C16_Pass ==
    (OneInvocation /\ TheFrame.pc = "pages" /\ TheFrame' # TheFrame) =>
        LET f == TheFrame
            g == TheFrame'
            n == f.page_numbers[f.index]
        IN  /\ g.index = f.index + 1
            /\ g.exception = NoException
            /\ g.pc = IF f.index = Len(f.page_numbers) THEN "close" ELSE "pages"
            /\ f.index > 1 => f.page_numbers[f.index - 1] < n
            /\ IF InBounds(n)
               THEN /\ g.pages_processed = f.pages_processed + 1
                    /\ SubSeq(g.all_paragraphs, 1, Len(f.all_paragraphs)) = f.all_paragraphs
                    /\ SubSeq(g.all_tables, 1, Len(f.all_tables)) = f.all_tables
                    /\ SubSeq(g.all_images, 1, Len(f.all_images)) = f.all_images
                    /\ PageNumbersOf(Gained(f.all_paragraphs, g.all_paragraphs)) \subseteq {n}
                    /\ PageNumbersOf(Gained(f.all_tables, g.all_tables)) \subseteq {n}
                    /\ PageNumbersOf(Gained(f.all_images, g.all_images)) \subseteq {n}
                    /\ Len(g.all_paragraphs) - Len(f.all_paragraphs)
                         = Cardinality(VisibleBlocks(TheRequest.data.pages[n]))
               ELSE g = [f EXCEPT !.index = f.index + 1, !.pc = g.pc]

\* a decodable document with a well-formed (or no) page range never fails,
\* and once the loop is over every requested page of the document has been
\* counted once and no other page has left an element
C16_Outcome ==
    (OneInvocation /\ Decodable /\ ~BadRange) =>
        /\ TheFrame.pc # "raised"
        /\ TheFrame.exception = NoException
        /\ TheFrame.pc \in {"close", "classify", "assemble", "format", "done"} =>
             /\ TheFrame.pages_processed
                  = Cardinality({n \in RequestedPages : InBounds(n)})
             /\ \A n \in PageNumbersOf(TheFrame.all_paragraphs \o TheFrame.all_tables
                                       \o TheFrame.all_images) :
                    InBounds(n) /\ n \in RequestedPages

\* C16: requested page numbers below 1 or above the page count are dropped
\* without an error: the request succeeds, nothing is extracted for them, and
\* every requested page of the document is processed once, in increasing
\* order.
C16_OutOfBoundsDropped == [][C16_Pass /\ C16_Outcome']_vars

\* "0-3" on a document of two pages: pages 1 and 2 are processed, 0 and 3 not
C16_Witness ==
    /\ OneInvocation
    /\ RequestedRange = <<"0", "-", "3">>
    /\ Decodable /\ TheRequest.data.pages = <<TextPage, TablePage>>
    /\ TheFrame.pc = "done"
    /\ TheFrame.page_numbers = <<0, 1, 2, 3>>
    /\ TheFrame.pages_processed = 2
    /\ [i \in 1..Len(TheFrame.all_paragraphs) |-> TheFrame.all_paragraphs[i].page_number]
         = <<1, 1, 2, 2>>

\* "3" on a document of two pages: the request succeeds with an empty model
C16_WitnessNothingLeft ==
    /\ OneInvocation
    /\ RequestedRange = <<"3">>
    /\ Decodable /\ TheRequest.data.pages = <<TextPage, TablePage>>
    /\ TheFrame.pc = "done"
    /\ TheFrame.pages_processed = 0
    /\ TheFrame.result.paragraphs = <<>>
    /\ TheFrame.result.content_blocks = <<>>

\* the request asks for images: its option spells "true", in letters of
\* either case
IncludesImages ==
    /\ "include_images" \in DOMAIN TheRequest.options
    /\ TheRequest.options.include_images
         \in {<<t, r, u, e>> : t \in {"t", "T"}, r \in {"r", "R"},
                               u \in {"u", "U"}, e \in {"e", "E"}}

\* the pages of the document that the request processes
ProcessedPages == {n \in RequestedPages : InBounds(n)}

PageOf(n) == TheRequest.data.pages[n]

TableDetectionFails(page) == "raises" \in DOMAIN page.tables

\* the tables of a page that have content
FilledTables(page) ==
    IF TableDetectionFails(page) THEN {}
    ELSE {i \in 1..Len(page.tables.found) : page.tables.found[i].extracted # <<>>}

\* an image of a page that fails: its bytes or its placement cannot be read
ImageFails(img) ==
    "raises" \in DOMAIN img.extracted \/ "raises" \in DOMAIN img.rects

\* the images of a page that extract
GoodImages(page) ==
    {i \in 1..Len(page.images) :
        ~ImageFails(page.images[i]) /\ "empty" \notin DOMAIN page.images[i].extracted}

AsBox(bbox) ==
    [x_min |-> bbox[1], y_min |-> bbox[2], x_max |-> bbox[3], y_max |-> bbox[4]]

\* the text blocks of a page that no table with content of that page covers
UncoveredBlocks(page) ==
    {i \in VisibleBlocks(page) :
        \A t \in FilledTables(page) :
            ~PositiveIntersection(AsBox(page.blocks[i].bbox),
                                  AsBox(page.tables.found[t].bbox))}

OnPage(elems, n) == LET On(e) == e.page_number = n IN SelectSeq(elems, On)

BoxesOf(elems) == {elems[i].bounding_box : i \in 1..Len(elems)}

\* C17: a failing table detection on a page and an image that cannot be read
\* never make the request fail; in the returned model only the tables of
\* that page and that image are missing: every processed page has all its
\* text blocks that no table covers, all its tables with content unless its
\* detection failed, and all its images that can be read.
C17_ItemFailuresLocal ==
    (OneInvocation /\ Decodable /\ ~BadRange) =>
        /\ TheFrame.pc # "raised"
        /\ TheFrame.exception = NoException
        /\ TheFrame.pc = "done" =>
             LET model == TheFrame.result
             IN  /\ \A n \in ProcessedPages :
                      /\ Len(OnPage(model.paragraphs, n))
                           = Cardinality(UncoveredBlocks(PageOf(n)))
                      /\ BoxesOf(OnPage(model.paragraphs, n))
                           = {AsBox(PageOf(n).blocks[i].bbox) :
                                 i \in UncoveredBlocks(PageOf(n))}
                      /\ Len(OnPage(model.tables, n))
                           = Cardinality(FilledTables(PageOf(n)))
                      /\ Len(OnPage(model.images, n))
                           = IF IncludesImages
                             THEN Cardinality(GoodImages(PageOf(n))) ELSE 0
                 /\ PageNumbersOf(model.paragraphs \o model.tables \o model.images)
                      \subseteq ProcessedPages

\* table detection fails on page 1 of two: its text and image are in the
\* model, and so are text and table of page 2
C17_Witness ==
    /\ OneInvocation
    /\ Decodable /\ TheRequest.data.pages = <<BrokenTablePage, TablePage>>
    /\ RequestedRange = <<>> /\ IncludesImages
    /\ TheFrame.pc = "done"
    /\ Len(TheFrame.result.paragraphs) = 2
    /\ TheFrame.result.paragraphs[1].content = <<"y">>
    /\ TheFrame.result.paragraphs[1].page_number = 1
    /\ Len(TheFrame.result.images) = 1
    /\ TheFrame.result.images[1].data = "iVA="
    /\ Len(TheFrame.result.tables) = 1
    /\ TheFrame.result.tables[1].page_number = 2
    /\ TheFrame.result.tables[1].id = "table-1"

\* two of the images of page 2 fail: the two that can be read are in the
\* model, with the text of page 1
C17_WitnessImages ==
    /\ OneInvocation
    /\ Decodable /\ TheRequest.data.pages = <<TextPage, ImagePage>>
    /\ RequestedRange = <<"2", ",", "1">> /\ IncludesImages
    /\ TheFrame.pc = "done"
    /\ Len(TheFrame.result.paragraphs) = 2
    /\ [i \in 1..Len(TheFrame.result.images) |->
           <<TheFrame.result.images[i].id, TheFrame.result.images[i].mime_type,
             TheFrame.result.images[i].data>>]
         = <<<<"img-0", "image/png", "iQ==">>, <<"img-2", "image/jpeg", "/9j/">>>>

\* ------------------------------------------------------------------
\* Errors as the caller sees them
\* ------------------------------------------------------------------

\* what "except ValueError" catches: an exception of ValueError or of a
\* class derived from it
IsValueError(exception) ==
    \E i \in DOMAIN exception.mro : exception.mro[i] = "ValueError"

\* process_document: the response for an exception that process raised
ErrorResponse(exception) ==
    IF IsValueError(exception)
    THEN [status_code |-> 400, code |-> "VALIDATION_ERROR",
          message |-> exception.message]
    ELSE [status_code |-> 500, code |-> "PROCESSING_FAILED",
          message |-> exception.message]

\* what an error tells the caller apart from its message text
ErrorCategory(exception) ==
    [type        |-> exception.raised,
     status_code |-> ErrorResponse(exception).status_code,
     code        |-> ErrorResponse(exception).code]

\* the errors raised for page ranges that are not well-formed
RangeErrors ==
    {ParsePageRange(r) : r \in {o \in PageRangeOptions :
                                   o # <<>> /\ Raised(ParsePageRange(o))}}

Undecodable == OneInvocation /\ ~Decodable /\ TheRequest.operation \in SupportedOperations

\* C18: a document that cannot be decoded makes the request fail without a
\* document model, and the category of the error (its exception type and
\* the status and code of the response) is not the category of any error
\* raised for a bad page range.
C18_UndecodableDistinct ==
    (Undecodable /\ TheFrame.pc = "raised") =>
        /\ TheFrame.returned = NotReturned
        /\ TheFrame.result = NoResult
        /\ \A e \in RangeErrors :
              ErrorCategory(TheFrame.exception) # ErrorCategory(e)

\* the part of C18 that the code keeps: the request fails whole
C18_NoModelReturned ==
    Undecodable =>
        /\ TheFrame.pc \in {"start", "raised"}
        /\ TheFrame.returned = NotReturned
        /\ TheFrame.result = NoResult
        /\ NothingExtracted(TheFrame)
        /\ TheFrame.pc = "raised" =>
             /\ TheFrame.exception.message = "Invalid or corrupted PDF file"
             /\ \A e \in RangeErrors : TheFrame.exception.message # e.message

\* ------------------------------------------------------------------
\* Properties of ids
\* ------------------------------------------------------------------

DistinctIds(elems) ==
    \A i, j \in 1..Len(elems) : elems[i].id = elems[j].id => i = j

IdsOf(elems) == {elems[i].id : i \in 1..Len(elems)}

\* C20: within one request no two paragraphs share an id, no two tables
\* share an id and no two images share an id, at every point of the
\* extraction and in the model returned, whatever pages were processed and
\* whichever tables were empty or images unreadable.
C20_IdsUnique ==
    \A t \in DOMAIN frame :
        /\ DistinctIds(frame[t].all_paragraphs)
        /\ DistinctIds(frame[t].all_tables)
        /\ DistinctIds(frame[t].all_images)
        /\ frame[t].result # NoResult =>
             /\ DistinctIds(frame[t].result.paragraphs)
             /\ DistinctIds(frame[t].result.tables)
             /\ DistinctIds(frame[t].result.images)

\* two pages with tables, each with a table without content: the ids of
\* the two tables kept are distinct and leave gaps
C20_Witness ==
    /\ OneInvocation
    /\ Decodable /\ TheRequest.data.pages = <<TablePage, TablePage>>
    /\ TheFrame.pc = "done"
    /\ Len(TheFrame.result.tables) = 2
    /\ IdsOf(TheFrame.result.tables) = {"table-1", "table-3"}
    /\ Len(TheFrame.result.paragraphs) = Cardinality(IdsOf(TheFrame.result.paragraphs))
    /\ Len(TheFrame.result.paragraphs) >= 2

\* two pages with images that fail: four images kept, with four ids
C20_WitnessImages ==
    /\ OneInvocation
    /\ Decodable /\ TheRequest.data.pages = <<ImagePage, ImagePage>>
    /\ IncludesImages
    /\ TheFrame.pc = "done"
    /\ Len(TheFrame.result.images) = 4
    /\ IdsOf(TheFrame.result.images) = {"img-0", "img-2", "img-3", "img-5"}

\* ------------------------------------------------------------------
\* Properties of process, for invocations in parallel
\* ------------------------------------------------------------------

Finished(f) == f.pc \in {"done", "raised"}

\* the next step of an invocation that runs with no other invocation
StepAlone(f, req) ==
    CASE f.pc = "start"    -> OpenStep(f, req)
      [] f.pc = "select"   -> SelectStep(f, req)
      [] f.pc = "pages"    -> PageStep(f, req)
      [] f.pc = "close"    -> CloseStep(f)
      [] f.pc = "classify" -> ClassifyStep(f, GetConfig(NoConfig))
      [] f.pc = "assemble" -> AssembleStep(f, req)
      [] f.pc = "format"   -> FormatStep(f, req)

RECURSIVE RunAlone(_, _)
RunAlone(f, req) == IF Finished(f) THEN f ELSE RunAlone(StepAlone(f, req), req)

\* the invocation of a request run alone, from its start to its end
Alone(req) == RunAlone(NewFrame, req)

\* C19: under every interleaving of the steps of the invocations, each
\* invocation ends as it ends when it runs alone: the same output, format
\* and metadata returned or the same exception raised, from the same lists,
\* counters and document model.
C19_NoInterference ==
    \A t \in DOMAIN frame :
        Finished(frame[t]) =>
            /\ frame[t].returned = Alone(request[t]).returned
            /\ frame[t].exception = Alone(request[t]).exception
            /\ frame[t] = Alone(request[t])

\* two invocations on different documents have both returned, each with
\* ids counted from its own 0
C19_Witness ==
    /\ Len(frame) = MaxInvocations
    /\ request[1].data = [pages |-> <<TextPage, TablePage>>]
    /\ request[2].data = [pages |-> <<ImagePage, TextPage>>]
    /\ frame[1].pc = "done" /\ frame[2].pc = "done"
    /\ config = LoadedConfig
    /\ frame[1].result.paragraphs[1].id = "para-0"
    /\ frame[2].result.paragraphs[1].id = "para-0"
    /\ frame[2].result.paragraphs[1].page_number = 2
    /\ frame[1].result.tables[1].id = "table-1"
    /\ frame[2].result.images[1].id = "img-0"
    /\ frame[1].returned.fmt = "html" /\ frame[2].returned.fmt = "json"

\* both invocations are in the middle of their loops over the pages at once
C19_WitnessInterleaved ==
    /\ Len(frame) = MaxInvocations
    /\ request[1] # request[2]
    /\ frame[1].pc = "pages" /\ frame[1].index = 2 /\ frame[1].para_counter > 0
    /\ frame[2].pc = "pages" /\ frame[2].index = 2 /\ frame[2].img_counter > 0

\* one invocation fails while the other is at work, and the other returns
C19_WitnessOneFails ==
    /\ Len(frame) = MaxInvocations
    /\ "corrupt" \in DOMAIN request[1].data
    /\ request[2].data = [pages |-> <<TextPage, TablePage>>]
    /\ frame[1].pc = "raised" /\ frame[2].pc = "done"
    /\ frame[2].returned # NotReturned

\* ------------------------------------------------------------------
\* Properties of the counts reported by process
\* ------------------------------------------------------------------

Returned == OneInvocation /\ TheFrame.pc = "done"

\* C29: the metadata value pages_processed is the number of requested pages
\* that lie in the document, and the pages field of the model returned is
\* the same number: out-of-bounds pages of a page range are counted in
\* neither.
C29_PagesCounted ==
    Returned =>
        /\ TheFrame.returned.metadata.pages_processed
             = ToString(Cardinality(ProcessedPages))
        /\ TheFrame.result.pages = Cardinality(ProcessedPages)

\* the part of C29 about the metadata
C29_PagesProcessed ==
    Returned =>
        /\ TheFrame.returned.metadata.pages_processed
             = ToString(Cardinality(ProcessedPages))
        /\ RequestedRange = <<>> =>
             /\ TheFrame.result.pages = Len(TheRequest.data.pages)
             /\ TheFrame.pages_processed = Len(TheRequest.data.pages)

\* the pages field with a page range: the number of pages the range names,
\* in the document or not
C29_PagesAsRequested ==
    (Returned /\ RequestedRange # <<>>) =>
        TheFrame.result.pages = Cardinality(RequestedPages)

\* "0-3" on a document of two pages
C29_PagesBeyondDocument ==
    /\ Returned
    /\ RequestedRange = <<"0", "-", "3">>
    /\ Len(TheRequest.data.pages) = 2
    /\ TheFrame.returned.metadata.pages_processed = "2"
    /\ TheFrame.result.pages = 4

\* C30: the metadata value total_paragraphs is the number of paragraphs of
\* the model returned, those that no table covers, and total_tables is the
\* number of its tables.
C30_TotalsOfModel ==
    Returned =>
        /\ TheFrame.returned.metadata.total_paragraphs
             = ToString(Len(TheFrame.result.paragraphs))
        /\ TheFrame.returned.metadata.total_tables
             = ToString(Len(TheFrame.result.tables))

\* the part of C30 about tables, and what total_paragraphs counts: the
\* paragraphs extracted, covered by a table or not
C30_TotalsOfExtraction ==
    Returned =>
        /\ TheFrame.returned.metadata.total_tables
             = ToString(Len(TheFrame.result.tables))
        /\ TheFrame.returned.metadata.total_paragraphs
             = ToString(Len(TheFrame.all_paragraphs))
        /\ Len(TheFrame.all_paragraphs)
             = Sum([i \in 1..Len(TheFrame.page_numbers) |->
                      IF InBounds(TheFrame.page_numbers[i])
                      THEN Cardinality(VisibleBlocks(PageOf(TheFrame.page_numbers[i])))
                      ELSE 0])
        /\ Len(TheFrame.result.paragraphs) <= Len(TheFrame.all_paragraphs)

\* a page whose table covers one of its text blocks
C30_CoveredParagraphCounted ==
    /\ Returned
    /\ TheRequest.data.pages = <<TablePage>>
    /\ TheFrame.returned.metadata.total_paragraphs
         # ToString(Len(TheFrame.result.paragraphs))

\* ------------------------------------------------------------------
\* Properties of the pages that assemble works with
\* ------------------------------------------------------------------

\* the overlap filter takes the paragraph and the table to be on one page
FilterSamePage(p, t) == ~PageDiffers(p, t)

\* the content blocks of the two elements carry the same page
BlockSamePage(p, t) ==
    ContentBlock("paragraph", p).page = ContentBlock("table", t).page

\* C28: for every paragraph and table handed to assemble, the overlap filter
\* takes them to be on the same page exactly when the content blocks built
\* for them carry the same page, also when one of them has no page_number.
C28_FilterPageIsBlockPage ==
    Assembled =>
        \A p \in Elems(paragraphs) : \A t \in Elems(tables) :
            FilterSamePage(p, t) <=> BlockSamePage(p, t)

\* the two agree whenever both elements have a page_number, or neither
C28_AgreeWithPageNumbers ==
    Assembled =>
        \A p \in Elems(paragraphs) : \A t \in Elems(tables) :
            ("page_number" \in DOMAIN p <=> "page_number" \in DOMAIN t) =>
                (FilterSamePage(p, t) <=> BlockSamePage(p, t))

\* a paragraph without page_number inside a table of page 1: it is kept, and
\* its block stands on page 1 with the block of the table
C28_KeptInsideTable ==
    /\ Assembled
    /\ Len(paragraphs) = 1 /\ Len(tables) = 1
    /\ "page_number" \notin DOMAIN paragraphs[1]
    /\ "page_number" \in DOMAIN tables[1] /\ tables[1].page_number = 1
    /\ "bounding_box" \in DOMAIN paragraphs[1]
    /\ "bounding_box" \in DOMAIN tables[1]
    /\ paragraphs[1].bounding_box = tables[1].bounding_box
    /\ result.paragraphs = paragraphs
    /\ \A i \in 1..Len(result.content_blocks) : result.content_blocks[i].page = 1

\* ------------------------------------------------------------------
\* Properties of the body font size
\* ------------------------------------------------------------------

BodyDetected == pc \in {"detected", "classified"}

\* the body size that _detect_body_font_size returned
BodySize == frame[1].returned

\* the weight of a paragraph: the length of its content, at most 200
WeightOf(para) ==
    IF Len(Get(para, "content", <<>>)) > 200 THEN 200
    ELSE Len(Get(para, "content", <<>>))

\* the size a paragraph contributes to: its font size rounded to one decimal
RoundedSize(para) == Round1(FontSize(para))

\* the total weight of a size in a list of paragraphs
TotalWeight(paras, size) ==
    Sum([i \in 1..Len(paras) |->
            IF RoundedSize(paras[i]) = size THEN WeightOf(paras[i]) ELSE 0])

\* the sizes that some paragraph with text contributes to
SizesWithText(paras) ==
    {RoundedSize(paras[i]) : i \in {j \in 1..Len(paras) : WeightOf(paras[j]) > 0}}

\* C22: the body size is a size that some paragraph with text has, rounded
\* to one decimal, and no size has a greater total weight, where a
\* paragraph weighs the length of its content and at most 200; when no
\* paragraph has text the body size is 12.0.
C22_BodySizeByCappedWeight ==
    BodyDetected =>
        IF SizesWithText(paragraphs) = {}
        THEN BodySize = 1200
        ELSE /\ BodySize \in SizesWithText(paragraphs)
             /\ BodySize % 10 = 0
             /\ \A size \in SizesWithText(paragraphs) :
                    TotalWeight(paragraphs, BodySize) >= TotalWeight(paragraphs, size)

\* two paragraphs of 110 characters at 11.05 points outweigh one of 300
\* characters at 12.0 points, which counts as 200; the body size is 11.1
C22_Witness ==
    /\ BodyDetected
    /\ Len(paragraphs) = 3
    /\ Len(paragraphs[1].content) = 300 /\ FontSize(paragraphs[1]) = 1200
    /\ Len(paragraphs[2].content) = 110 /\ FontSize(paragraphs[2]) = 1105
    /\ Len(paragraphs[3].content) = 110 /\ FontSize(paragraphs[3]) = 1105
    /\ BodySize = 1110

\* paragraphs, all without text
C22_WitnessNoText ==
    /\ BodyDetected
    /\ Len(paragraphs) = 2
    /\ \A i \in 1..2 : paragraphs[i].content = <<>> /\ FontSize(paragraphs[i]) = 1300
    /\ BodySize = 1200

\* the first paragraph with text that contributes to a size
FirstContributor(paras, size) ==
    CHOOSE i \in 1..Len(paras) :
        /\ RoundedSize(paras[i]) = size /\ WeightOf(paras[i]) > 0
        /\ \A j \in 1..(i - 1) :
              ~(RoundedSize(paras[j]) = size /\ WeightOf(paras[j]) > 0)

\* the sizes of the greatest total weight
HeaviestSizes(paras) ==
    {size \in SizesWithText(paras) :
        \A other \in SizesWithText(paras) :
            TotalWeight(paras, size) >= TotalWeight(paras, other)}

Swapped(paras) == [i \in 1..Len(paras) |-> paras[Len(paras) + 1 - i]]

\* C23: among the sizes of the greatest total weight, the body size is the
\* one whose first contributing paragraph comes first in the list.
C23_TieToFirstEncountered ==
    (BodyDetected /\ SizesWithText(paragraphs) # {}) =>
        /\ BodySize \in HeaviestSizes(paragraphs)
        /\ \A size \in HeaviestSizes(paragraphs) :
              FirstContributor(paragraphs, BodySize)
                <= FirstContributor(paragraphs, size)

\* two sizes with the same total weight of 200: the size of the first
\* paragraph is the body size, and the same paragraphs in the other order
\* have the other body size and other roles
C23_Witness ==
    /\ pc = "classified"
    /\ Len(paragraphs) = 2
    /\ Len(paragraphs[1].content) = 200 /\ FontSize(paragraphs[1]) = 1300
    /\ Len(paragraphs[2].content) = 300 /\ FontSize(paragraphs[2]) = 1105
    /\ Cardinality(HeaviestSizes(paragraphs)) = 2
    /\ BodySize = 1300
    /\ paragraphs[1].role = "None"
    /\ DetectBodyFontSize(Swapped(paragraphs)) = 1110
    /\ ClassifyParagraphs(Swapped(paragraphs), title_threshold,
                          heading_threshold)[2].role = "sectionHeading"

\* ------------------------------------------------------------------
\* Properties of rendering an assembled model
\* ------------------------------------------------------------------

CollectionOfType(type) ==
    CASE type = "paragraph" -> result.paragraphs
      [] type = "table" -> result.tables
      [] type = "image" -> result.images

\* how often the pieces occur, in this order and next to each other, in html
Occurrences(pieces) ==
    Cardinality({i \in 1..(Len(html) - Len(pieces) + 1) :
                    SubSeq(html, i, i + Len(pieces) - 1) = pieces})

ParagraphPieces(para) ==
    LET tag == CASE para.role = "title" -> "h1"
                 [] para.role = "sectionHeading" -> "h2"
                 [] OTHER -> "p"
    IN  <<"<" \o tag \o ">">> \o EscapeHtml(para.content) \o <<"</" \o tag \o ">">>

TablePieces(table) ==
    <<"<table border=\"1\" id=\"" \o table.id \o "\"><tbody>">>

ImagePieces(img) ==
    <<"<img src=\"data:" \o img.mime_type \o ";base64," \o Get(img, "data", "")
      \o "\" />">>

OpeningPieces == {"<p>", "<h1>", "<h2>"}

PiecesIn(set) == Cardinality({i \in 1..Len(html) : html[i] \in set})

\* C25: in a model built by assemble from elements with unique ids every
\* content block names an element of the collection of its type, and when
\* the model is rendered every paragraph kept and every table appears
\* exactly once and nothing else does but the images that have data.
C25_AssembledModelRendersWhole ==
    /\ result # NoResult =>
         \A i \in 1..Len(result.content_blocks) :
             Cardinality({e \in Elems(CollectionOfType(result.content_blocks[i].type)) :
                             e.id = result.content_blocks[i].content_id}) = 1
    /\ (Converted /\ result # NoResult) =>
         /\ \A para \in Elems(result.paragraphs) :
                Occurrences(ParagraphPieces(para)) = 1
         /\ PiecesIn(OpeningPieces) = Len(result.paragraphs)
         /\ \A table \in Elems(result.tables) :
                Occurrences(TableToHtml(table)) = 1
         /\ PiecesIn({TablePieces(t)[1] : t \in Elems(tables)}) = Len(tables)
         /\ PiecesIn({ImagePieces(img)[1] : img \in Elems(result.images)})
               = Cardinality({i \in 1..Len(result.images) :
                                 Get(result.images[i], "data", "") # ""})
         /\ \A k \in 1..Len(result.content_blocks) :
                LET b == result.content_blocks[k]
                IN  BlockToHtml(result, b) = <<>> =>
                      /\ b.type = "image"
                      /\ Get(Target(result.images, b.content_id), "data", "") = ""

\* a paragraph inside the table is dropped, the paragraph beside it and the
\* table are rendered, and of two images the one with data
C25_Witness ==
    /\ Converted
    /\ Len(paragraphs) = 1 /\ Len(tables) = 1 /\ Len(images) = 1
    /\ paragraphs[1].bounding_box = OuterBox
    /\ Get(images[1], "data", "") = "QQ=="
    /\ Len(result.content_blocks) = 3
    /\ Occurrences(<<"<p>", "&", "l", "t", ";", "1", "</p>">>) = 1
    /\ Occurrences(<<"<th>", "1", "</th>">>) = 1
    /\ PiecesIn({"<img src=\"data:image/png;base64,QQ==\" />"}) = 1

\* an image with empty data and one without data: two image blocks, nothing
\* rendered for them; the paragraph inside the table has no block
C25_WitnessNoData ==
    /\ Converted
    /\ Len(paragraphs) = 1 /\ Len(tables) = 1 /\ Len(images) = 1
    /\ paragraphs[1].bounding_box = InnerBox
    /\ paragraphs[1].page_number = tables[1].page_number
    /\ "data" \notin DOMAIN images[1]
    /\ result.paragraphs = <<>>
    /\ Len(result.content_blocks) = 2
    /\ PiecesIn(OpeningPieces) = 0
    /\ Len(html) = 2 + Len(TableToHtml(tables[1]))

\* ------------------------------------------------------------------
\* Properties of the fields of the elements during process
\* ------------------------------------------------------------------

\* the paragraph with its role unset
WithoutRole(para) == [para EXCEPT !.role = "None"]

AllPagesExtracted(f) ==
    f.pages_processed
      = Cardinality({i \in 1..Len(f.page_numbers) :
                        1 <= f.page_numbers[i] /\ f.page_numbers[i] <= f.total_pages})

\* the step of the classifier: every role is unset before it, the roles are
\* what classify gives, and nothing else of a paragraph changes
RoleWrittenIn(f, g) ==
    /\ AllPagesExtracted(f) /\ f.doc = "closed" /\ f.result = NoResult
    /\ \A i \in 1..Len(f.all_paragraphs) : f.all_paragraphs[i].role = "None"
    /\ Len(g.all_paragraphs) = Len(f.all_paragraphs)
    /\ \A i \in 1..Len(f.all_paragraphs) :
          WithoutRole(g.all_paragraphs[i]) = f.all_paragraphs[i]
    /\ g.all_paragraphs
         = ClassifyParagraphs(f.all_paragraphs, DefaultTitleThreshold,
                              DefaultHeadingThreshold)
    /\ g.all_tables = f.all_tables /\ g.all_images = f.all_images
    /\ g.result = NoResult

\* any other step: elements are appended while the pages are extracted and
\* are never changed; the model, once assembled, holds the elements as they
\* are and stays as it is
ElementsKeptIn(f, g) ==
    /\ IsPrefix(f.all_paragraphs, g.all_paragraphs)
    /\ IsPrefix(f.all_tables, g.all_tables)
    /\ IsPrefix(f.all_images, g.all_images)
    /\ f.pc # "pages" =>
         /\ g.all_paragraphs = f.all_paragraphs
         /\ g.all_tables = f.all_tables
         /\ g.all_images = f.all_images
    /\ f.pc \in {"start", "select", "pages", "close"} =>
         \A i \in 1..Len(g.all_paragraphs) : g.all_paragraphs[i].role = "None"
    /\ f.result # NoResult => g.result = f.result
    /\ g.result # NoResult =>
         /\ f.pc \in {"assemble", "format", "done"}
         /\ Elems(g.result.paragraphs) \subseteq Elems(g.all_paragraphs)
         /\ g.result.tables = g.all_tables
         /\ g.result.images \in {<<>>, g.all_images}

\* C24: in every step of process the elements extracted so far keep all their
\* fields, except in the one step of the classifier, which comes after the
\* last page and before assemble and writes the role of every paragraph and
\* nothing else; assemble and the renderer take the elements as they are.
C24_RoleWrittenOnce ==
    [][\A t \in DOMAIN frame :
          IF frame[t].pc = "classify" /\ frame'[t].pc # "classify"
          THEN RoleWrittenIn(frame[t], frame'[t])
          ELSE ElementsKeptIn(frame[t], frame'[t])]_vars

\* a rendered request over a page with a title and a page with a table: the
\* title has its role, and the model holds the table as extracted
C24_Witness ==
    /\ Returned
    /\ TheRequest.data.pages = <<TextPage, TablePage>>
    /\ RequestedRange = <<>>
    /\ TheFrame.returned.fmt = "html"
    /\ Len(TheFrame.all_paragraphs) = 4
    /\ TheFrame.all_paragraphs[1].role = "title"
    /\ TheFrame.all_paragraphs[2].role = "None"
    /\ TheFrame.result.tables = TheFrame.all_tables
    /\ Len(TheFrame.result.tables) = 1
    /\ TheFrame.result.tables[1].cells[3].content = <<"&">>
    /\ Len(TheFrame.result.paragraphs) < Len(TheFrame.all_paragraphs)

\* ------------------------------------------------------------------
\* Properties of the document handle, in both backends
\* ------------------------------------------------------------------

\* pymupdf.open is reached and succeeds for the request: the backend called
\* supports the operation, its options are read without error, and the
\* file is a PDF
Opens(f, req) ==
    /\ "pages" \in DOMAIN req.data
    /\ IF "threshold" \in DOMAIN f
       THEN /\ req.operation \in DetectOperations
            /\ ("char_threshold" \in DOMAIN req.options
                  => ~Raised(ParseInt(req.options.char_threshold)))
       ELSE req.operation \in SupportedOperations

\* the positions of process behind the try ... finally
AfterFinally == {"classify", "assemble", "format", "detect_result", "done", "raised"}

\* C26: in both backends a document that was opened is closed exactly once
\* before process returns or raises, whatever happens in between, and is
\* closed before anything is classified, assembled or rendered.
C26_ClosedExactlyOnce ==
    \A t \in DOMAIN frame :
        LET f == frame[t]
        IN  /\ f.closes = IF f.doc = "closed" THEN 1 ELSE 0
            /\ f.pc \in AfterFinally =>
                 /\ f.doc = IF Opens(f, request[t]) THEN "closed" ELSE "unopened"
                 /\ f.closes = IF Opens(f, request[t]) THEN 1 ELSE 0
            /\ f.pc \in {"classify", "assemble", "format", "detect_result"} =>
                 f.doc = "closed" /\ f.exception = NoException
            /\ f.result # NoResult => f.doc = "closed"

\* extract: the engine fails on the second page, after the first was
\* extracted; the document is closed and the exception goes to the caller
C26_Witness ==
    /\ Len(frame) = 1
    /\ "threshold" \notin DOMAIN frame[1]
    /\ frame[1].pc = "raised"
    /\ "pages" \in DOMAIN request[1].data
    /\ Len(request[1].data.pages) = 2
    /\ "unreadable" \in DOMAIN request[1].data.pages[2]
    /\ frame[1].pages_processed = 2
    /\ Len(frame[1].all_paragraphs) > 0
    /\ frame[1].exception.raised = "RuntimeError"
    /\ frame[1].doc = "closed" /\ frame[1].closes = 1

\* extract with the page range "2-1"
C26_WitnessBadRange ==
    /\ Len(frame) = 1
    /\ "threshold" \notin DOMAIN frame[1]
    /\ frame[1].pc = "raised"
    /\ Get(request[1].options, "pages", <<>>) = <<"2", "-", "1">>
    /\ frame[1].exception.raised = "ValueError"
    /\ frame[1].doc = "closed" /\ frame[1].closes = 1

\* detect_text_layer: the engine fails on the second page
C26_WitnessDetect ==
    /\ Len(frame) = 1
    /\ "threshold" \in DOMAIN frame[1]
    /\ frame[1].pc = "raised"
    /\ Len(frame[1].pages) = 1
    /\ frame[1].doc = "closed" /\ frame[1].closes = 1

\* both backends return
C26_WitnessReturned ==
    /\ Len(frame) = 1
    /\ frame[1].pc = "done"
    /\ frame[1].doc = "closed" /\ frame[1].closes = 1
    /\ "threshold" \in DOMAIN frame[1]
    /\ frame[1].threshold = 2
    /\ Len(frame[1].pages) = 2
    /\ frame[1].returned.metadata.pages_with_text = "2"

-----------------------------------------------------------------------------
(* The handlers of the HTTP server *)
(* The frame of a handler holds its name in handler, the request body (of    *)
(* POST /process) or the form (of the two uploads) in http, as posted and    *)
(* from its validation on with the defaults of the fields left out, the      *)
(* response once there is one, and the number of calls of a backend's        *)
(* process; an upload handler that has read its file holds the bytes in      *)
(* pdf_data.  From the call on the frame also holds the locals of that       *)
(* process, which runs in a worker thread while the handler awaits it.       *)
(* The field data of the body                                                *)
(* is what base64.b64decode(data, validate=True) makes of it: it raises, or  *)
(* it gives bytes of some size, which the engine reads as some document.     *)

NotCalled == [called |-> FALSE]

NoResponse == [pending |-> TRUE]

\* find_backend: the first backend of the list that supports the operation
FindBackend(operation) ==
    IF operation \in SupportedOperations THEN "TextExtractionBackend"
    ELSE IF operation \in DetectOperations THEN "TextLayerDetectionBackend"
    ELSE "None"

\* the locals of process of a backend that has not run a statement yet
FrameOf(backend) ==
    IF backend = "TextExtractionBackend" THEN NewFrame ELSE NewDetectFrame

\* max_bytes
MaxBytes(cfg) == cfg.max_file_size_mb * 1024 * 1024

\* HTTPException(status_code=..., detail={"success": False, "error": ...})
HttpError(status_code, code) ==
    [status_code |-> status_code, success |-> FALSE, code |-> code]

\* the dict the handler returns, which FastAPI sends with status 200
HttpSuccess(returned) ==
    [status_code |-> 200,
     success     |-> TRUE,
     result      |-> returned.output_data,
     format      |-> IF returned.fmt = "json" THEN <<"application/json">>
                     ELSE <<"text/", returned.fmt>>,
     metadata    |-> returned.metadata]

\* the handler with the operation looked up before the size is checked
HttpReceiveStep_BackendFirst(f, cfg) ==
    IF "raises" \in DOMAIN f.http.data
    THEN Assign(f, [pc |-> "responded", responses |-> f.responses + 1,
                    response |-> HttpError(400, "INVALID_BASE64")])
    ELSE IF FindBackend(f.http.operation) = "None"
    THEN Assign(f, [pc |-> "responded", responses |-> f.responses + 1,
                    response |-> HttpError(400, "INVALID_OPERATION")])
    ELSE IF f.http.data.size > MaxBytes(cfg)
    THEN Assign(f, [pc |-> "responded", responses |-> f.responses + 1,
                    response |-> HttpError(400, "FILE_TOO_LARGE")])
    ELSE FrameOf(FindBackend(f.http.operation))
           @@ [handler |-> f.handler, http |-> f.http, response |-> f.response,
               responses |-> f.responses, calls |-> f.calls + 1]

\* the handler up to the call of backend.process: the frame after it
HttpReceiveStep(f, cfg) ==
    IF "raises" \in DOMAIN f.http.data
    THEN Assign(f, [pc |-> "responded", responses |-> f.responses + 1,
                    response |-> HttpError(400, "INVALID_BASE64")])
    ELSE IF f.http.data.size > MaxBytes(cfg)
    THEN Assign(f, [pc |-> "responded", responses |-> f.responses + 1,
                    response |-> HttpError(400, "FILE_TOO_LARGE")])
    ELSE IF FindBackend(f.http.operation) = "None"
    THEN Assign(f, [pc |-> "responded", responses |-> f.responses + 1,
                    response |-> HttpError(400, "INVALID_OPERATION")])
    ELSE FrameOf(FindBackend(f.http.operation))
           @@ [handler |-> f.handler, http |-> f.http, response |-> f.response,
               responses |-> f.responses, calls |-> f.calls + 1]

\* the arguments of backend.process: document_data, request.operation,
\* request.options
ProcessArguments(http) ==
    [data |-> http.data.document, operation |-> http.operation,
     options |-> http.options]

HttpReceive(t) ==
    /\ frame[t].handler = "process_document"
    /\ frame[t].pc = "received"
    /\ config' = IF "raises" \in DOMAIN frame[t].http.data THEN config
                 ELSE GetConfig(config)
    /\ frame' = [frame EXCEPT ![t] = HttpReceiveStep(@, GetConfig(config))]
    /\ request' = [request EXCEPT ![t] =
                      IF HttpReceiveStep(frame[t], GetConfig(config)).calls > 0
                      THEN ProcessArguments(frame[t].http) ELSE @]
    /\ UNCHANGED <<paragraphs, tables, images, total_pages, title_threshold,
                   heading_threshold, result, html, pc, first_in_set>>

\* the handler after the call: the dict returned, or the except clauses
HttpRespondStep(f) ==
    Assign(f, [pc |-> "responded", responses |-> f.responses + 1,
               response |-> IF f.pc = "done" THEN HttpSuccess(f.returned)
                            ELSE ErrorResponse(f.exception) @@ [success |-> FALSE]])

HttpRespond(t) ==
    /\ frame[t].handler = "process_document"
    /\ frame[t].pc \in {"done", "raised"}
    /\ frame' = [frame EXCEPT ![t] = HttpRespondStep(@)]
    /\ UNCHANGED <<paragraphs, tables, images, total_pages, title_threshold,
                   heading_threshold, result, html, pc, request, config,
                   first_in_set>>

\* the fields a request must hold: those of ProcessRequest that have no
\* default, and the File(...) of the two uploads
RequiredFields(handler) ==
    IF handler = "process_document" THEN {"operation", "data"} ELSE {"file"}

\* the defaults of the fields a request may leave out: options of
\* ProcessRequest, and the Form(...) fields of extract
FieldDefaults(handler) ==
    IF handler = "process_document" THEN [options |-> <<>>]
    ELSE IF handler = "extract"
    THEN [output_format |-> "json", pages |-> <<>>,
          include_images |-> <<"f", "a", "l", "s", "e">>]
    ELSE <<>>

\* the framework checks what was posted against the parameters of the
\* handler: 422 naming the fields that are missing, or the arguments the
\* handler is called with
ValidateStep(f) ==
    IF RequiredFields(f.handler) \subseteq DOMAIN f.http
    THEN Assign(f, [pc |-> "received", http |-> f.http @@ FieldDefaults(f.handler)])
    ELSE Assign(f, [pc |-> "responded", responses |-> f.responses + 1,
                    response |-> [status_code |-> 422,
                                  missing |-> RequiredFields(f.handler)
                                                \ DOMAIN f.http]])

ValidateRequest(t) ==
    /\ frame[t].pc = "posted"
    /\ frame' = [frame EXCEPT ![t] = ValidateStep(@)]
    /\ UNCHANGED <<paragraphs, tables, images, total_pages, title_threshold,
                   heading_threshold, result, html, pc, request, config,
                   first_in_set>>

\* pdf_data = await file.read(): the handler has the bytes of the upload, and
\* the event loop may run other work before the handler goes on
ReadFile(t) ==
    /\ frame[t].handler \in {"extract", "detect_text_layer"}
    /\ frame[t].pc = "received"
    /\ frame' = [frame EXCEPT ![t] =
                    Assign(@, [pc |-> "read"]) @@ [pdf_data |-> @.http.file]]
    /\ UNCHANGED <<paragraphs, tables, images, total_pages, title_threshold,
                   heading_threshold, result, html, pc, request, config,
                   first_in_set>>

\* HTTPException(status_code=..., detail={"success": False, "error": text})
UploadError(status_code, error) ==
    [status_code |-> status_code, success |-> FALSE, error |-> error]

\* the options extract hands to backend.process: the two fields of the form,
\* and pages when the form has some
ExtractOptions(form) ==
    IF form.pages # <<>>
    THEN [output_format |-> form.output_format,
          include_images |-> form.include_images, pages |-> form.pages]
    ELSE [output_format |-> form.output_format,
          include_images |-> form.include_images]

\* extract and detect_text_layer from get_config() to the call of
\* backend.process for the operation: the frame after it
UploadStep(f, cfg, operation, unavailable) ==
    IF f.pdf_data.size > MaxBytes(cfg)
    THEN Assign(f, [pc |-> "responded", responses |-> f.responses + 1,
                    response |-> UploadError(400, <<"File exceeds ",
                                                    cfg.max_file_size_mb,
                                                    "MB limit">>)])
    ELSE IF FindBackend(operation) = "None"
    THEN Assign(f, [pc |-> "responded", responses |-> f.responses + 1,
                    response |-> [status_code |-> 500,
                                  detail |-> unavailable]])
    ELSE FrameOf(FindBackend(operation))
           @@ [handler |-> f.handler, http |-> f.http, pdf_data |-> f.pdf_data,
               response |-> f.response, responses |-> f.responses,
               calls |-> f.calls + 1]

\* POST /api/extract after the file is read: the configuration is loaded, the
\* size checked and process of the extract backend called
Extract(t) ==
    /\ frame[t].handler = "extract"
    /\ frame[t].pc = "read"
    /\ config' = GetConfig(config)
    /\ frame' = [frame EXCEPT ![t] = UploadStep(@, GetConfig(config), "extract",
                               "Extract backend not available")]
    /\ request' = [request EXCEPT ![t] =
                      IF UploadStep(frame[t], GetConfig(config), "extract",
                                    "Extract backend not available").calls > 0
                      THEN [data |-> frame[t].pdf_data.document,
                            operation |-> "extract",
                            options |-> ExtractOptions(frame[t].http)]
                      ELSE @]
    /\ UNCHANGED <<paragraphs, tables, images, total_pages, title_threshold,
                   heading_threshold, result, html, pc, first_in_set>>

\* POST /api/detect-text-layer after the file is read: as extract, with the
\* detection backend and no options
DetectTextLayer(t) ==
    /\ frame[t].handler = "detect_text_layer"
    /\ frame[t].pc = "read"
    /\ config' = GetConfig(config)
    /\ frame' = [frame EXCEPT ![t] =
                    UploadStep(@, GetConfig(config), "detect_text_layer",
                               "Detection backend not available")]
    /\ request' = [request EXCEPT ![t] =
                      IF UploadStep(frame[t], GetConfig(config),
                                    "detect_text_layer",
                                    "Detection backend not available").calls > 0
                      THEN [data |-> frame[t].pdf_data.document,
                            operation |-> "detect_text_layer",
                            options |-> <<>>]
                      ELSE @]
    /\ UNCHANGED <<paragraphs, tables, images, total_pages, title_threshold,
                   heading_threshold, result, html, pc, first_in_set>>

\* extract after the call: the dict returned, or the except clauses
ExtractRespondStep(f) ==
    Assign(f, [pc |-> "responded", responses |-> f.responses + 1,
               response |->
                   IF f.pc = "done"
                   THEN [status_code |-> 200,
                         success     |-> TRUE,
                         result      |-> f.returned.output_data,
                         format      |-> IF f.returned.fmt = "json"
                                         THEN "application/json" ELSE "text/html",
                         metadata    |-> f.returned.metadata]
                   ELSE UploadError(IF IsValueError(f.exception) THEN 400 ELSE 500,
                                    f.exception.message)])

ExtractRespond(t) ==
    /\ frame[t].handler = "extract"
    /\ frame[t].pc \in {"done", "raised"}
    /\ frame' = [frame EXCEPT ![t] = ExtractRespondStep(@)]
    /\ UNCHANGED <<paragraphs, tables, images, total_pages, title_threshold,
                   heading_threshold, result, html, pc, request, config,
                   first_in_set>>

\* detect_text_layer after the call: the dict returned, or the except clauses
DetectTextLayerRespondStep(f) ==
    Assign(f, [pc |-> "responded", responses |-> f.responses + 1,
               response |->
                   IF f.pc = "done"
                   THEN [status_code |-> 200,
                         success     |-> TRUE,
                         result      |-> f.returned.output_data,
                         metadata    |-> f.returned.metadata]
                   ELSE UploadError(IF IsValueError(f.exception) THEN 400 ELSE 500,
                                    f.exception.message)])

DetectTextLayerRespond(t) ==
    /\ frame[t].handler = "detect_text_layer"
    /\ frame[t].pc \in {"done", "raised"}
    /\ frame' = [frame EXCEPT ![t] = DetectTextLayerRespondStep(@)]
    /\ UNCHANGED <<paragraphs, tables, images, total_pages, title_threshold,
                   heading_threshold, result, html, pc, request, config,
                   first_in_set>>

\* run_server(): the configuration is read for host and port, and uvicorn
\* serves the app from then on
RunServer ==
    /\ pc = "start"
    /\ pc' = "serving"
    /\ config' = GetConfig(config)
    /\ UNCHANGED <<paragraphs, tables, images, total_pages, title_threshold,
                   heading_threshold, result, html, request, frame,
                   first_in_set>>

NextHttp ==
    \/ \E t \in DOMAIN frame :
        \/ ValidateRequest(t)
        \/ HttpReceive(t)
        \/ ReadFile(t)
        \/ Extract(t)
        \/ DetectTextLayer(t)
        \/ OpenDocument(t)
        \/ SelectPages(t)
        \/ ExtractPage(t)
        \/ CloseDocument(t)
        \/ ClassifyRoles(t)
        \/ AssembleModel(t)
        \/ FormatOutput(t)
        \/ DetectOpen(t)
        \/ DetectPage(t)
        \/ DetectClose(t)
        \/ DetectResult(t)
        \/ HttpRespond(t)
        \/ ExtractRespond(t)
        \/ DetectTextLayerRespond(t)
    \/ RunServer
    \/ ReloadConfig

\* sizes of the decoded data around the limit of the configuration
DataSizes ==
    {1, MaxBytes(LoadedConfig), MaxBytes(LoadedConfig) + 1}

ServedDocuments ==
    {[corrupt |-> TRUE],
     [pages |-> <<>>],
     [pages |-> <<WithText(TextPage, <<"T", "\n", "a", " ", "b">>)>>],
     [pages |-> <<WithText(TextPage, <<"T">>), UnreadablePage(Mro("RuntimeError"))>>],
     [pages |-> <<UnreadablePage(Mro("ValueError"))>>],
     [pages |-> <<UnreadablePage(Mro("UnicodeDecodeError"))>>],
     [pages |-> <<UnreadablePage(UnsupportedOperation)>>]}

DecodedData ==
    {[raises |-> TRUE]}
    \cup {[size |-> n, document |-> d] : n \in DataSizes, d \in ServedDocuments}

ServedOperations == SupportedOperations \cup DetectOperations \cup {"ocr"}

ServedOptions ==
    {<<>>,
     [output_format |-> "html"],
     [pages |-> <<"2", "-", "1">>],
     [char_threshold |-> <<"x">>]}

\* bodies posted to /process: with every field, without options, and
\* without a field that ProcessRequest requires
ProcessRequests ==
    {[data |-> d, operation |-> op, options |-> opts] :
        d \in DecodedData, op \in ServedOperations, opts \in ServedOptions}
    \cup {[data |-> d, operation |-> op] :
            d \in DecodedData, op \in ServedOperations}
    \cup {[data |-> d, options |-> <<>>] : d \in DecodedData}
    \cup {[operation |-> op] : op \in ServedOperations}
    \cup {<<>>}

\* the uploaded files: data of some size, which the engine reads as some
\* document
UploadedFiles ==
    {[size |-> n, document |-> d] : n \in DataSizes, d \in ServedDocuments}

\* the forms of POST /api/extract: with every field, with the file alone,
\* and without the file
ExtractForms ==
    {[file |-> file, output_format |-> fmt, pages |-> range,
      include_images |-> <<"f", "a", "l", "s", "e">>] :
        file \in UploadedFiles, fmt \in {"json", "html"},
        range \in {<<>>, <<"2", "-", "1">>}}
    \cup {[file |-> file] : file \in UploadedFiles}
    \cup {<<>>, [output_format |-> "html"]}

\* the forms of POST /api/detect-text-layer, with the file and without
DetectForms == {[file |-> file] : file \in UploadedFiles} \cup {<<>>}

\* the handlers with what is posted to them
HandlerCalls ==
    {[handler |-> "process_document", http |-> http] : http \in ProcessRequests}
    \cup {[handler |-> "extract", http |-> form] : form \in ExtractForms}
    \cup {[handler |-> "detect_text_layer", http |-> form] : form \in DetectForms}

\* a request has been posted; run_server has not been called
InitHttp ==
    /\ \E call \in HandlerCalls :
          frame = <<[pc |-> "posted", handler |-> call.handler,
                    http |-> call.http, response |-> NoResponse,
                    responses |-> 0, calls |-> 0]>>
    /\ request = <<NotCalled>>
    /\ config = NoConfig
    /\ first_in_set = <<>>
    /\ paragraphs = <<>>
    /\ tables = <<>>
    /\ images = <<>>
    /\ total_pages = 0
    /\ title_threshold = DefaultTitleThreshold
    /\ heading_threshold = DefaultHeadingThreshold
    /\ result = NoResult
    /\ html = <<>>
    /\ pc = "start"

SpecHttp == InitHttp /\ [][NextHttp]_vars

\* ------------------------------------------------------------------
\* Properties of POST /process
\* ------------------------------------------------------------------

Responded(f) == f.pc = "responded"

\* the body holds the fields a ProcessRequest requires
ValidBody(http) == {"operation", "data"} \subseteq DOMAIN http

\* the check of the handler the request fails first, or "none"
FailedCheck(http) ==
    IF "raises" \in DOMAIN http.data THEN "INVALID_BASE64"
    ELSE IF http.data.size > MaxBytes(LoadedConfig) THEN "FILE_TOO_LARGE"
    ELSE IF http.operation \notin SupportedOperations \cup DetectOperations
    THEN "INVALID_OPERATION"
    ELSE "none"

\* the handler checks the base64 encoding, then the size, then the operation;
\* a request that fails one of them is answered with 400 for the first check
\* it fails and no backend is called.  A request that passes them has one
\* backend called once, and is answered with 200 when the backend returns,
\* 400 when it raises a ValueError and 500 when it raises anything else.
ChecksInOrder(t) ==
    LET f == frame[t]
    IN  /\ f.calls =
             IF FailedCheck(f.http) = "none" /\ f.pc \notin {"posted", "received"}
             THEN 1 ELSE 0
        /\ f.calls = 0 => request[t] = NotCalled /\ "doc" \notin DOMAIN f
        /\ Responded(f) =>
             IF FailedCheck(f.http) # "none"
             THEN /\ f.response.status_code = 400
                  /\ f.response.code = FailedCheck(f.http)
             ELSE /\ f.response.status_code =
                       IF f.exception = NoException THEN 200
                       ELSE IF f.exception.raised
                                 \in {"ValueError", "UnicodeDecodeError",
                                      "UnsupportedOperation"}
                            THEN 400
                       ELSE 500
                  /\ f.response.success = (f.exception = NoException)
                  /\ (f.exception = NoException) = (f.returned # NotReturned)

\* the frames of POST /process
ProcessFrames == {t \in DOMAIN frame : frame[t].handler = "process_document"}

\* C21 as stated: POST /process checks the base64 encoding, then the size,
\* then the operation, answers 400 for the first check that fails without
\* calling a backend, and 200, 400 or 500 by the outcome of the backend, so
\* every request ends in exactly one of 200, 400 or 500.
C21_Ends200_400_500 ==
    \A t \in ProcessFrames :
        LET f == frame[t]
        IN  /\ f.responses = IF Responded(f) THEN 1 ELSE 0
            /\ ~Responded(f) => f.response = NoResponse
            /\ Responded(f) => f.response.status_code \in {200, 400, 500}
            /\ ValidBody(f.http) => ChecksInOrder(t)

\* C21, amended: a POST /process whose body holds the fields of a
\* ProcessRequest is answered as stated, by the checks in their order and
\* the outcome of the backend, with 200, 400 or 500; a body without
\* operation or without data is answered 422 before the handler runs, with
\* no backend called.  Every request gets exactly one response, of 200, 400,
\* 422 or 500.
C21_OneResponse ==
    \A t \in ProcessFrames :
        LET f == frame[t]
        IN  /\ f.responses = IF Responded(f) THEN 1 ELSE 0
            /\ ~Responded(f) => f.response = NoResponse
            /\ Responded(f) => f.response.status_code \in {200, 400, 422, 500}
            /\ ValidBody(f.http) => ChecksInOrder(t)
            /\ ~ValidBody(f.http) =>
                 /\ f.calls = 0 /\ request[t] = NotCalled /\ "doc" \notin DOMAIN f
                 /\ Responded(f) => f.response.status_code = 422
            /\ Responded(f) =>
                 (f.response.status_code = 422) = ~ValidBody(f.http)

\* a request with data over the limit and an unknown operation is refused
\* for its size
C21_Witness ==
    /\ frame[1].handler = "process_document"
    /\ Responded(frame[1])
    /\ ValidBody(frame[1].http)
    /\ "size" \in DOMAIN frame[1].http.data
    /\ frame[1].http.data.size > MaxBytes(LoadedConfig)
    /\ frame[1].http.operation = "ocr"
    /\ frame[1].response.status_code = 400
    /\ frame[1].calls = 0

\* a body with data and options and no operation: 422, nothing called
C21_Witness422 ==
    /\ frame[1].handler = "process_document"
    /\ Responded(frame[1])
    /\ DOMAIN frame[1].http = {"data", "options"}
    /\ frame[1].response.status_code = 422
    /\ frame[1].calls = 0
    /\ request[1] = NotCalled

\* the engine fails on a page: 500
C21_Witness500 ==
    /\ frame[1].handler = "process_document"
    /\ Responded(frame[1])
    /\ frame[1].calls = 1
    /\ frame[1].response.status_code = 500
    /\ frame[1].doc = "closed"

\* a backend raises a ValueError: 400
C21_Witness400 ==
    /\ frame[1].handler = "process_document"
    /\ Responded(frame[1])
    /\ frame[1].calls = 1
    /\ frame[1].response.status_code = 400
    /\ frame[1].response.code = "VALIDATION_ERROR"

\* data of exactly the limit is processed: 200
C21_Witness200 ==
    /\ frame[1].handler = "process_document"
    /\ Responded(frame[1])
    /\ ValidBody(frame[1].http)
    /\ "size" \in DOMAIN frame[1].http.data
    /\ frame[1].http.data.size = MaxBytes(LoadedConfig)
    /\ frame[1].response.status_code = 200
    /\ frame[1].response.format = <<"text/", "html">>

-----------------------------------------------------------------------------
(* ProcessDocument of the gRPC service *)
(* The frame of the handler holds the request in grpc and the response once  *)
(* there is one; from the call of backend.process on it also holds the       *)
(* locals of that process.  The handlers of several requests run in the      *)
(* threads of the server's pool, on the one list of backends.                *)

\* ProcessResponse(success=False, error_message=...): the other fields keep
\* the defaults of the message
FailureResponse(error_message) ==
    [success |-> FALSE, error_message |-> error_message,
     output_data |-> <<>>, format |-> "", metadata |-> <<>>]

\* ProcessResponse(output_data=..., format=..., metadata=..., success=True,
\* error_message="")
SuccessResponse(returned) ==
    [success |-> TRUE, error_message |-> "",
     output_data |-> returned.output_data, format |-> returned.fmt,
     metadata |-> returned.metadata]

\* the handler up to the call of backend.process: the frame after it
GrpcReceiveStep(f) ==
    IF FindBackend(f.grpc.operation) = "None"
    THEN Assign(f, [pc |-> "responded",
                    response |-> FailureResponse(<<"No backend found for operation '",
                                                   f.grpc.operation, "'">>)])
    ELSE FrameOf(FindBackend(f.grpc.operation))
           @@ [grpc |-> f.grpc, response |-> f.response]

GrpcReceive(t) ==
    /\ frame[t].pc = "received"
    /\ frame' = [frame EXCEPT ![t] = GrpcReceiveStep(@)]
    /\ request' = [request EXCEPT ![t] =
                      IF FindBackend(frame[t].grpc.operation) = "None" THEN @
                      ELSE [data |-> frame[t].grpc.document_data,
                            operation |-> frame[t].grpc.operation,
                            options |-> frame[t].grpc.options]]
    /\ UNCHANGED <<paragraphs, tables, images, total_pages, title_threshold,
                   heading_threshold, result, html, pc, config, first_in_set>>

\* the handler with except ValueError in place of except Exception
GrpcRespondStep_ValueErrorOnly(f) ==
    IF f.pc = "done"
    THEN Assign(f, [pc |-> "responded", response |-> SuccessResponse(f.returned)])
    ELSE IF IsValueError(f.exception)
    THEN Assign(f, [pc |-> "responded",
                    response |-> FailureResponse(<<"Processing failed: ",
                                                   f.exception.message>>)])
    ELSE Assign(f, [pc |-> "propagated"])

\* the handler after the call: the response of success, or except Exception
GrpcRespondStep(f) ==
    IF f.pc = "done"
    THEN Assign(f, [pc |-> "responded", response |-> SuccessResponse(f.returned)])
    ELSE Assign(f, [pc |-> "responded",
                    response |-> FailureResponse(<<"Processing failed: ",
                                                   f.exception.message>>)])

GrpcRespond(t) ==
    /\ frame[t].pc \in {"done", "raised"}
    /\ frame' = [frame EXCEPT ![t] = GrpcRespondStep(@)]
    /\ UNCHANGED <<paragraphs, tables, images, total_pages, title_threshold,
                   heading_threshold, result, html, pc, request, config,
                   first_in_set>>

NextGrpc ==
    \/ \E t \in DOMAIN frame :
        \/ GrpcReceive(t)
        \/ OpenDocument(t)
        \/ SelectPages(t)
        \/ ExtractPage(t)
        \/ CloseDocument(t)
        \/ ClassifyRoles(t)
        \/ AssembleModel(t)
        \/ FormatOutput(t)
        \/ DetectOpen(t)
        \/ DetectPage(t)
        \/ DetectClose(t)
        \/ DetectResult(t)
        \/ GrpcRespond(t)
    \/ ReloadConfig

\* requests that succeed, requests for which there is no backend, and
\* requests on which the backend raises
GrpcRequests ==
    {[operation |-> "extract", options |-> [output_format |-> "html"],
      document_data |-> [pages |-> <<WithText(TextPage, <<"T", "\n", "a">>)>>]],
     [operation |-> "extract", options |-> <<>>,
      document_data |-> [pages |-> <<WithText(TextPage, <<"T">>),
                                     UnreadablePage(Mro("RuntimeError"))>>]],
     [operation |-> "extract", options |-> <<>>,
      document_data |-> [corrupt |-> TRUE]],
     [operation |-> "detect_text_layer", options |-> [char_threshold |-> <<"2">>],
      document_data |-> [pages |-> <<WithText(TextPage, <<"T", "\n", "a">>)>>]],
     [operation |-> "detect_text_layer", options |-> <<>>,
      document_data |-> [pages |-> <<UnreadablePage(Mro("ValueError"))>>]],
     [operation |-> "ocr", options |-> <<>>,
      document_data |-> [pages |-> <<WithText(TextPage, <<"T">>)>>]]}

\* the requests have arrived at the service; no handler has started
InitGrpc ==
    /\ \E reqs \in [1..MaxInvocations -> GrpcRequests] :
          frame = [t \in 1..MaxInvocations |->
                      [pc |-> "received", grpc |-> reqs[t], response |-> NoResponse]]
    /\ request = [t \in 1..MaxInvocations |-> NotCalled]
    /\ config = NoConfig
    /\ first_in_set = <<>>
    /\ paragraphs = <<>>
    /\ tables = <<>>
    /\ images = <<>>
    /\ total_pages = 0
    /\ title_threshold = DefaultTitleThreshold
    /\ heading_threshold = DefaultHeadingThreshold
    /\ result = NoResult
    /\ html = <<>>
    /\ pc = "start"

SpecGrpc == InitGrpc /\ [][NextGrpc]_vars

\* ------------------------------------------------------------------
\* Properties of ProcessDocument
\* ------------------------------------------------------------------

\* the next step of process of the detection backend run with no other
\* invocation
DetectStepAlone(f, req) ==
    CASE f.pc = "detect"        -> DetectOpenStep(f, req, GetConfig(NoConfig))
      [] f.pc = "detect_pages"  -> DetectPageStep(f, req)
      [] f.pc = "detect_close"  -> DetectCloseStep(f)
      [] f.pc = "detect_result" -> DetectResultStep(f)

RECURSIVE DetectRunAlone(_, _)
DetectRunAlone(f, req) ==
    IF Finished(f) THEN f ELSE DetectRunAlone(DetectStepAlone(f, req), req)

\* how process ends for the request when no other request is served: the
\* values returned, or the exception
OutcomeAlone(grpc) ==
    LET req == [data |-> grpc.document_data, operation |-> grpc.operation,
                options |-> grpc.options]
        f == IF FindBackend(grpc.operation) = "TextExtractionBackend"
             THEN Alone(req) ELSE DetectRunAlone(NewDetectFrame, req)
    IN  [returned |-> f.returned, exception |-> f.exception]

\* C27: ProcessDocument ends with a ProcessResponse for every request, never
\* with an exception: success is False and error_message is not empty when
\* no backend supports the operation or the backend raises, and otherwise
\* success is True and error_message is empty, with the output the backend
\* returns.  The response to a request is the one it gets when it is the only
\* request, whether other requests of the service failed before or not.
C27_AlwaysResponds ==
    \A t \in DOMAIN frame :
        LET f == frame[t]
            fails == \/ f.grpc.operation \notin SupportedOperations \cup DetectOperations
                     \/ OutcomeAlone(f.grpc).exception # NoException
        IN  /\ f.pc # "propagated"
            /\ f.pc = "raised" => f.exception.raised \in {"ValueError", "RuntimeError"}
            /\ f.pc # "responded" => f.response = NoResponse
            /\ f.pc = "responded" =>
                 /\ f.response.success = ~fails
                 /\ fails => /\ f.response.error_message # ""
                             /\ f.response.error_message # <<>>
                             /\ f.response.format = ""
                 /\ ~fails => /\ f.response.error_message = ""
                              /\ f.response.output_data
                                   = OutcomeAlone(f.grpc).returned.output_data
                              /\ f.response.format = OutcomeAlone(f.grpc).returned.fmt
                              /\ f.response.metadata
                                   = OutcomeAlone(f.grpc).returned.metadata

\* the first request failed on a page the engine cannot read, and the
\* second, handled by the same service, has succeeded
C27_Witness ==
    /\ frame[1].pc = "responded" /\ frame[2].pc = "responded"
    /\ frame[1].grpc.operation = "extract"
    /\ ~frame[1].response.success
    /\ "doc" \in DOMAIN frame[1]
    /\ frame[1].exception.raised = "RuntimeError"
    /\ frame[2].response.success
    /\ frame[2].response.format = "html"

\* the first request has been answered with a failure before the handler of
\* the second has started
C27_WitnessLater ==
    /\ frame[1].pc = "responded" /\ frame[2].pc = "received"
    /\ ~frame[1].response.success
    /\ "doc" \in DOMAIN frame[1]
    /\ frame[2].grpc.operation = "detect_text_layer"
    /\ frame[2].grpc.options # <<>>

\* no backend supports the operation
C27_WitnessNoBackend ==
    /\ frame[1].pc = "responded"
    /\ frame[1].grpc.operation = "ocr"
    /\ ~frame[1].response.success
    /\ "doc" \notin DOMAIN frame[1]
    /\ request[1] = NotCalled

====
